---- MODULE Spec2Model ----
(***************************************************************************)
(* Pigeonhole Sieve: the script execution pipeline.                        *)
(*                                                                         *)
(*   - the bytecode interpreter (sieve-interpreter.c, second half of       *)
(*     src/src/lib-sieve/sieve.c): program counter, loop stack, jumps;     *)
(*   - the read primitives of the binary (sieve-binary.c);                 *)
(*   - the orchestrator sieve_execute (first half of sieve.c);             *)
(*   - the store action (src/unnamed/part_000) driven by the result's      *)
(*     two-phase commit.                                                   *)
(*                                                                         *)
(* The bytes of a block are untrusted input.  Every byte a read primitive  *)
(* inspects is an input of the step that inspects it; a byte fetched       *)
(* beyond the end of the block (undefined behaviour in C) is any byte.     *)
(***************************************************************************)
EXTENDS Integers, Sequences, FiniteSets, TLC

VARIABLES
    \* ---- struct sieve_interpreter (sieve.c:858-888), the running interpreter
    sblock_size,        \* sieve_binary_block_get_size(renv->sblock)
    pc,                 \* interp->runenv.pc
    interrupted,        \* interp->interrupted
    loop_stack,         \* interp->loop_stack: Seq of [level, begin, end]
    stack_created,      \* array_is_created(&interp->loop_stack)
    loop_limit,         \* interp->loop_limit
    parent_loop_level,  \* interp->parent_loop_level
    ret,                \* `ret' of sieve_interpreter_continue
    ipc,                \* where the interpreter is: "continue" | "returned" | "idle"
    ancestors,          \* interp->parent chain: the suspended parent interpreters
    fuel,               \* operations the run may still dispatch (bounds the run)
    last,               \* the interpreter call made by the latest step, with its inputs
    \* ---- sieve_execute (sieve.c:539-582) and the result it executes
    epc,                \* where sieve_execute is
    actions,            \* the result's action list, with the hooks invoked so far
    run_status,         \* what sieve_run returned
    status,             \* `ret' of sieve_execute
    keep,               \* *keep
    keeps,              \* outcomes of the implicit keeps attempted so far
    \* ---- struct sieve_multiscript (sieve.c:587-599) and its shared result
    active,             \* mscript->active
    teststream,         \* mscript->teststream != NULL
    keep_action,        \* the result's keep action: "NULL" | "act_store"
    executed,           \* sieve_result_executed(result)
    run_ret,            \* what the latest sieve_multiscript_run returned
    scripts,            \* scripts handed to sieve_multiscript_run so far
    keep_log,           \* the implicit keeps: who called, the keep action then
    \* ---- struct sieve_binary (sieve-binary.c:67-109): the active block
    wordbits,           \* sizeof(sieve_size_t) * 8 of the build
    code,               \* sbin->data / sbin->code: the active block's bytes
    emitted,            \* the emit calls made: what was emitted, where
    cop,                \* the latest read call, with its inputs and results
    \* ---- struct sieve_binary: its blocks and extensions, and the file system
    blocks,             \* sbin->blocks: Seq of [data, ext_index]
    linked,             \* sbin->linked_extensions: Seq of extension ids
    disk,               \* the files at path and path.tmp: [exists, data]
    saves,              \* sieve_binary_save calls made
    fop,                \* the latest sieve_binary_save / sieve_binary_load call
    \* ---- the store actions of a result being built (act_store, part_000)
    default_mailbox,    \* senv->default_mailbox
    stores,             \* the result's store actions: Seq of [context, seffects]
    adds,               \* sieve_act_store_add_to_result calls made
    aop,                \* the latest addition, with its inputs and its return
    \* ---- struct sieve_match_context (sieve-match-types.c) and match values
    mctx,               \* the match session: type, comparator, keys, regex context
    mvalues,            \* the interpreter's current match values
    mop,                \* the latest sieve_match_* call, with what it invoked
    \* ---- struct act_store_transaction (part_000) and the mail storage
    trans,              \* the transaction context created by act_store_start
    storage,            \* mailboxes, mail transactions and the original mail
    sop,                \* the latest hook of the store action and its return
    \* ---- struct sieve_binary (sieve-binary.c:101-108): the current block buffer
    active_block,       \* sbin->active_block
    code_size,          \* sbin->code_size, set by sieve_binary_block_set_active
    code_moved,         \* sbin->code no longer points at the memory of sbin->data
    \* ---- struct sieve_binary: the extensions registered in the binary
    extensions,         \* sbin->extensions: the ext_id of each registration, by index
    \* ---- a binary's references (sieve-binary.c:153-190) and its interpreters
    binary,             \* sbin: refcount, fd, and what its release has done
    interps,            \* the interpreters created on the binary, in order
    rop,                \* the latest call on the binary or an interpreter
    \* ---- struct program_client (part_003) and the run it is in
    pclient,            \* the client: error, fds, timeout, io, streams, ioloop
    ppc,                \* where program_client_run is
    pret                \* `ret' of program_client_run, then what it returned

ivars == <<sblock_size, pc, interrupted, loop_stack, stack_created, loop_limit,
           parent_loop_level, ret, ipc, fuel, last>>
mvars == <<active, teststream, keep_action, executed, run_ret, scripts, keep_log>>
evars == <<epc, actions, run_status, status, keep, keeps, mvars>>
cvars == <<wordbits, code, emitted, cop>>
fvars == <<blocks, linked, disk, saves, fop>>
rvars == <<default_mailbox, stores, adds, aop>>
tvars == <<mctx, mvalues, mop>>
svars == <<trans, storage, sop>>
avars == <<active_block, code_size, code_moved>>
nvars == <<binary, interps, rop>>
pvars == <<pclient, ppc, pret>>
xvars == <<avars, extensions, nvars, pvars>>
bvars == <<cvars, fvars, rvars, tvars, svars, xvars>>
vars == <<sblock_size, pc, interrupted, loop_stack, stack_created, loop_limit,
          parent_loop_level, ret, ipc, ancestors, fuel, last, evars, bvars>>

(***************************************************************************)
(* Program constants                                                       *)
(***************************************************************************)
\* enum sieve_execution_exitcode: OK is the only positive code (`ret > 0'),
\* FAILURE is zero (`!sieve_result_implicit_keep(..)', `status >= 0').
SIEVE_EXEC_OK == 1
SIEVE_EXEC_FAILURE == 0
SIEVE_EXEC_TEMP_FAILURE == -1
SIEVE_EXEC_BIN_CORRUPT == -2
SIEVE_EXEC_KEEP_FAILED == -3

\* sieve-limits.h; used by sieve_interpreter_loop_start
SIEVE_MAX_LOOP_DEPTH == 4

\* sizeof(sieve_size_t) * 8.  The program has 32 or 64; the model checker's
\* integers are 32-bit, so the word is scaled to 30 bits.  Every input the
\* model draws stays below 2^24 in magnitude, so the wrap-arounds that happen
\* in the model are those that happen with 32 or 64 bits.
SizeBits == 30
SizeMod == 2 ^ SizeBits

(***************************************************************************)
(* Bounds                                                                  *)
(***************************************************************************)
MaxBlock == 9       \* largest block size of a top-level script
MaxOps == 3         \* operations dispatched in one run
MaxNesting == 2     \* suspended ancestors of a running interpreter
MaxNestedOps == 7   \* operations dispatched along a chain of nested runs
MaxScripts == 3     \* scripts run in one multiscript session
MaxActions == 3     \* actions a script adds to the result
MaxNestedBlock == 7 \* largest block size of the scripts of a chain
NestedSizes == (MaxNestedBlock - 1)..MaxNestedBlock
\* bytes of memory a varint read may be handed: it inspects at most one byte
\* per seven bits of the word, and one more
IntWinLen == (SizeBits \div 7) + 2

\* Memory windows handed to sieve_binary_read_offset: four bytes, big-endian.
OffsetWindows ==
    { <<0, 0, 0, k>> : k \in 0..(MaxBlock - 2) } \cup
    { <<255, 255, 255, 256 - k>> : k \in 1..(MaxBlock - 3) } \cup
    { <<0, 0, 1, 0>>, <<255, 255, 0, 0>> }

\* Memory windows handed to sieve_binary_read_integer: k bytes with the
\* continuation bit, then bytes without it.
ContBytes == {128, 129}
TermBytes == {0, 2}
IntWindows ==
    { [i \in 1..IntWinLen |-> IF i <= k THEN c ELSE t] :
        k \in 0..IntWinLen, c \in ContBytes, t \in TermBytes }

(***************************************************************************)
(* sieve-binary.c: code retrieval                                          *)
(***************************************************************************)
\* ADDR_BYTES_LEFT: code_size - *address, in sieve_size_t (unsigned)
ADDR_BYTES_LEFT(size, address) == (size - address) % SizeMod

\* sieve_binary_read_byte; data[1] is the byte at *address
sieve_binary_read_byte(size, address, data) ==
    IF ADDR_BYTES_LEFT(size, address) >= 1
    THEN [ok |-> TRUE, address |-> address + 1, val |-> data[1]]
    ELSE [ok |-> FALSE, address |-> address, val |-> 0]

\* (int)(uint32_t) of four big-endian bytes: two's complement
OffsetValue(data) ==
    (IF data[1] >= 128 THEN data[1] - 256 ELSE data[1]) * 16777216
        + data[2] * 65536 + data[3] * 256 + data[4]

\* sieve_binary_read_offset; data[1..4] are the bytes at *address..
sieve_binary_read_offset(size, address, data) ==
    IF ADDR_BYTES_LEFT(size, address) >= 4
    THEN [ok |-> TRUE, address |-> address + 4, val |-> OffsetValue(data)]
    ELSE [ok |-> FALSE, address |-> address, val |-> 0]

\* x |= b & 0x7F  (the low seven bits of x are clear whenever this is used)
OrLow7(x, b) == x + (b % 128)
\* x <<= 7 in sieve_size_t
ShiftLeft7(x) == (x % (2 ^ (SizeBits - 7))) * 128

\* The while loop of sieve_binary_read_integer; data[i] is the byte at address.
RECURSIVE read_integer_loop(_, _, _, _, _, _)
read_integer_loop(size, address, data, i, integer, bits) ==
    IF data[i] >= 128
    THEN IF ADDR_BYTES_LEFT(size, address) > 0 /\ bits > 0
         THEN read_integer_loop(size, address + 1, data, i + 1,
                                ShiftLeft7(OrLow7(integer, data[i])), bits - 7)
         ELSE [ok |-> FALSE, address |-> address, val |-> integer]
    ELSE [ok |-> TRUE, address |-> address + 1, val |-> OrLow7(integer, data[i])]

\* sieve_binary_read_integer
sieve_binary_read_integer(size, address, data) ==
    IF ADDR_BYTES_LEFT(size, address) = 0
    THEN [ok |-> FALSE, address |-> address, val |-> 0]
    ELSE read_integer_loop(size, address, data, 1, 0, SizeBits)

\* sieve_binary_read_string; data is the memory at the length prefix, term the
\* byte found after the payload (the payload itself is copied, not inspected)
sieve_binary_read_string(size, address, data, term) ==
    LET n == sieve_binary_read_integer(size, address, data) IN
    IF ~n.ok THEN [ok |-> FALSE, address |-> n.address]
    ELSE IF n.val > ADDR_BYTES_LEFT(size, n.address)
         THEN [ok |-> FALSE, address |-> n.address]
    ELSE IF term # 0 THEN [ok |-> FALSE, address |-> n.address + n.val]
    ELSE [ok |-> TRUE, address |-> n.address + n.val + 1]

(***************************************************************************)
(* sieve-interpreter.c: loop handling.  An interpreter is the record       *)
(*   [pc, loop_stack, stack_created, loop_limit, parent_loop_level].       *)
(* C index i of the loop array is element i + 1 of loop_stack.             *)
(***************************************************************************)
\* A loop_start without the "loop end offset out of range" test
loop_start_unchecked_end(I, size, loop_end) ==
    IF I.parent_loop_level + Len(I.loop_stack) >= SIEVE_MAX_LOOP_DEPTH
    THEN [ret |-> SIEVE_EXEC_FAILURE, I |-> [I EXCEPT !.stack_created = TRUE]]
    ELSE [ret |-> SIEVE_EXEC_OK,
          I |-> [I EXCEPT !.stack_created = TRUE,
                          !.loop_stack = Append(I.loop_stack,
                              [level |-> Len(I.loop_stack), begin |-> I.pc,
                               end |-> loop_end]),
                          !.loop_limit = loop_end]]

\* sieve_interpreter_loop_start (the caller guarantees loop_end > pc: i_assert)
sieve_interpreter_loop_start(I, size, loop_end) ==
    IF loop_end > size
    THEN [ret |-> SIEVE_EXEC_BIN_CORRUPT, I |-> I]
    ELSE IF I.parent_loop_level + Len(I.loop_stack) >= SIEVE_MAX_LOOP_DEPTH
         THEN [ret |-> SIEVE_EXEC_FAILURE, I |-> [I EXCEPT !.stack_created = TRUE]]
    ELSE [ret |-> SIEVE_EXEC_OK,
          I |-> [I EXCEPT !.stack_created = TRUE,
                          !.loop_stack = Append(I.loop_stack,
                              [level |-> Len(I.loop_stack), begin |-> I.pc,
                               end |-> loop_end]),
                          !.loop_limit = loop_end]]

\* sieve_interpreter_loop_next on the innermost loop (i_assert: it is the last)
sieve_interpreter_loop_next(I, loop_begin) ==
    IF I.loop_stack[Len(I.loop_stack)].begin # loop_begin
    THEN [ret |-> SIEVE_EXEC_BIN_CORRUPT, I |-> I]
    ELSE [ret |-> SIEVE_EXEC_OK, I |-> [I EXCEPT !.pc = loop_begin]]

\* The do-while of sieve_interpreter_loop_break: unref loops[i-1], i--, while
\* i > 0 and &loops[i] != loop.  `loop' is C index L; unrefd lists the C
\* indices whose pool was unreferenced, in order.
RECURSIVE loop_break_unref(_, _, _)
loop_break_unref(i, L, unrefd) ==
    LET u == Append(unrefd, i - 1)
        j == i - 1
    IN  IF j > 0 /\ j # L THEN loop_break_unref(j, L, u)
        ELSE [i |-> j, unrefd |-> u]

\* "Set new loop limit" of sieve_interpreter_loop_break, i the C index of loop
loop_break_limit(loops, i) ==
    IF i > 0 THEN loops[i + 1].end ELSE 0

\* sieve_interpreter_loop_break(interp, &loops[L]).  pc is assigned loop->end
\* after array_delete; the deleted slot keeps its bytes, so this is the end of
\* the loop broken.
sieve_interpreter_loop_break(I, L) ==
    LET loops == I.loop_stack
        count == Len(loops)
        s == loop_break_unref(count, L, <<>>)
    IN  [ret |-> SIEVE_EXEC_OK,
         unrefd |-> s.unrefd,
         I |-> [I EXCEPT !.loop_limit = loop_break_limit(loops, s.i),
                         !.loop_stack = SubSeq(loops, 1, s.i),
                         !.pc = loops[L + 1].end]]

\* A scan that gives up after one frame
loop_break_out_scan_one(loops, i, target) ==
    IF i > 0 /\ ~(loops[i].end > target) THEN i - 1 ELSE i

\* The for loop of sieve_interpreter_loop_break_out: the i it ends with
RECURSIVE loop_break_out_scan(_, _, _)
loop_break_out_scan(loops, i, target) ==
    IF i > 0 /\ ~(loops[i].end > target)
    THEN loop_break_out_scan(loops, i - 1, target)
    ELSE i

\* sieve_interpreter_loop_break_out
sieve_interpreter_loop_break_out(I, target) ==
    IF ~I.stack_created
    THEN [ret |-> SIEVE_EXEC_OK, unrefd |-> <<>>, I |-> I]
    ELSE LET i == loop_break_out_scan(I.loop_stack, Len(I.loop_stack), target)
         IN  IF i = Len(I.loop_stack)
             THEN [ret |-> SIEVE_EXEC_OK, unrefd |-> <<>>, I |-> I]
             ELSE sieve_interpreter_loop_break(I, i)

(***************************************************************************)
(* sieve-interpreter.c: program flow                                       *)
(***************************************************************************)
\* jmp_start + jmp_offset in sieve_size_t
JumpTarget(jmp_start, jmp_offset) == (jmp_start + jmp_offset) % SizeMod

\* A range test that ignores the loop limit
JumpInRange_no_limit(jmp_target, size, limit) ==
    jmp_target <= size /\ jmp_target > 0

\* The range test of sieve_interpreter_program_jump
JumpInRange(jmp_target, size, limit) ==
    /\ jmp_target <= size
    /\ (limit = 0 \/ jmp_target < limit)
    /\ jmp_target > 0

\* sieve_interpreter_program_jump(interp, jump, break_loops); data are the
\* four bytes at pc.  taken: `*address = jmp_target' was executed.
sieve_interpreter_program_jump(I, size, jump, break_loops, data) ==
    LET jmp_start == I.pc
        limit == IF break_loops THEN 0 ELSE I.loop_limit
        rd == sieve_binary_read_offset(size, I.pc, data)
        jmp_target == JumpTarget(jmp_start, rd.val)
        J == [I EXCEPT !.pc = rd.address]
    IN  IF ~rd.ok
        THEN [ret |-> SIEVE_EXEC_BIN_CORRUPT, I |-> I, taken |-> FALSE, unrefd |-> <<>>]
        ELSE IF JumpInRange(jmp_target, size, limit)
             THEN IF jump
                  THEN LET b == IF break_loops
                                THEN sieve_interpreter_loop_break_out(J, jmp_target)
                                ELSE [ret |-> SIEVE_EXEC_OK, unrefd |-> <<>>, I |-> J]
                       IN  IF b.ret <= 0
                           THEN [ret |-> b.ret, I |-> b.I, taken |-> FALSE,
                                 unrefd |-> b.unrefd]
                           ELSE [ret |-> SIEVE_EXEC_OK,
                                 I |-> [b.I EXCEPT !.pc = jmp_target],
                                 taken |-> TRUE, unrefd |-> b.unrefd]
                  ELSE [ret |-> SIEVE_EXEC_OK, I |-> J, taken |-> FALSE,
                        unrefd |-> <<>>]
             ELSE [ret |-> SIEVE_EXEC_BIN_CORRUPT, I |-> J, taken |-> FALSE,
                   unrefd |-> <<>>]

(***************************************************************************)
(* sieve-interpreter.c: code execute.  One step is one iteration of the    *)
(* while loop of sieve_interpreter_continue: the loop-boundary test, then  *)
(* sieve_interpreter_operation_execute (the opcode read and the handler).  *)
(* The operation handlers are the callers of the interpreter's interface;  *)
(* each step below is a handler making one kind of call.                   *)
(***************************************************************************)
Self == [pc |-> pc, loop_stack |-> loop_stack, stack_created |-> stack_created,
         loop_limit |-> loop_limit, parent_loop_level |-> parent_loop_level]

\* A while condition that does not poll the interrupted flag
LoopCondition_ignoring_interrupt ==
    ret = SIEVE_EXEC_OK /\ pc < sblock_size

\* The condition of the while loop of sieve_interpreter_continue
LoopCondition ==
    ret = SIEVE_EXEC_OK /\ ~interrupted /\ pc < sblock_size

\* The test that opens the loop body: "program crossed loop boundary"
CrossedBoundary(limit, address) == limit # 0 /\ address > limit

\* An operation is about to be read and executed
Dispatch ==
    /\ ipc = "continue"
    /\ LoopCondition
    /\ ~CrossedBoundary(loop_limit, pc)
    /\ fuel > 0

\* sieve_operation_read: the opcode byte is consumed
AfterOpcode == [Self EXCEPT !.pc = sieve_binary_read_byte(sblock_size, pc, <<0>>).address]

\* The interpreter after the step: I with status r, l the call made
Becomes(I, r, l) ==
    /\ pc' = I.pc
    /\ loop_stack' = I.loop_stack
    /\ stack_created' = I.stack_created
    /\ loop_limit' = I.loop_limit
    /\ parent_loop_level' = I.parent_loop_level
    /\ ret' = r
    /\ last' = l
    /\ fuel' = IF l.op = "boundary" THEN fuel ELSE fuel - 1
    /\ UNCHANGED <<sblock_size, interrupted, ipc, ancestors, evars, bvars>>

\* sieve_interpreter_continue, lines 1702-1707
LoopBoundaryCheck ==
    /\ ipc = "continue"
    /\ LoopCondition
    /\ CrossedBoundary(loop_limit, pc)
    /\ Becomes(Self, SIEVE_EXEC_BIN_CORRUPT, [op |-> "boundary"])

\* op->execute == NULL
OpNoop ==
    /\ Dispatch
    /\ Becomes(AfterOpcode, SIEVE_EXEC_OK, [op |-> "noop"])

\* sieve_operation_read fails: "Encountered invalid operation"
OpInvalid ==
    /\ Dispatch
    /\ Becomes(AfterOpcode, SIEVE_EXEC_BIN_CORRUPT, [op |-> "invalid"])

\* A handler that fails with a runtime error
OpRuntimeError ==
    /\ Dispatch
    /\ \E st \in {SIEVE_EXEC_FAILURE, SIEVE_EXEC_TEMP_FAILURE} :
          Becomes(AfterOpcode, st, [op |-> "error"])

\* A handler that reads one operand; a failed read is a corrupt binary
OpReadByte ==
    /\ Dispatch
    /\ LET rd == sieve_binary_read_byte(sblock_size, AfterOpcode.pc, <<0>>)
       IN  Becomes([AfterOpcode EXCEPT !.pc = rd.address],
                   IF rd.ok THEN SIEVE_EXEC_OK ELSE SIEVE_EXEC_BIN_CORRUPT,
                   [op |-> "read_byte"])

OpReadInteger ==
    /\ Dispatch
    /\ \E data \in IntWindows :
          LET rd == sieve_binary_read_integer(sblock_size, AfterOpcode.pc, data)
          IN  Becomes([AfterOpcode EXCEPT !.pc = rd.address],
                      IF rd.ok THEN SIEVE_EXEC_OK ELSE SIEVE_EXEC_BIN_CORRUPT,
                      [op |-> "read_integer"])

OpReadString ==
    /\ Dispatch
    /\ \E data \in IntWindows, term \in {0, 1} :
          LET rd == sieve_binary_read_string(sblock_size, AfterOpcode.pc, data, term)
          IN  Becomes([AfterOpcode EXCEPT !.pc = rd.address],
                      IF rd.ok THEN SIEVE_EXEC_OK ELSE SIEVE_EXEC_BIN_CORRUPT,
                      [op |-> "read_string"])

\* A jump operation: sieve_interpreter_program_jump
OpJump ==
    /\ Dispatch
    /\ \E jump \in BOOLEAN, break_loops \in BOOLEAN, data \in OffsetWindows :
          LET r == sieve_interpreter_program_jump(AfterOpcode, sblock_size, jump,
                                                  break_loops, data)
          IN  Becomes(r.I, r.ret,
                      [op |-> "jump", jump |-> jump,
                       break_loops |-> break_loops, offset |-> OffsetValue(data),
                       taken |-> r.taken, unrefd |-> r.unrefd])

\* A loop operation: sieve_interpreter_loop_start
OpLoopStart ==
    /\ Dispatch
    /\ \E loop_end \in (AfterOpcode.pc + 1)..(sblock_size + 1) :
          LET r == sieve_interpreter_loop_start(AfterOpcode, sblock_size, loop_end)
          IN  Becomes(r.I, r.ret,
                      [op |-> "loop_start", loop_end |-> loop_end])

\* A loop operation: sieve_interpreter_loop_next on the innermost loop
OpLoopNext ==
    /\ Dispatch
    /\ loop_stack # <<>>
    /\ \E loop_begin \in 0..sblock_size :
          LET r == sieve_interpreter_loop_next(AfterOpcode, loop_begin)
          IN  Becomes(r.I, r.ret,
                      [op |-> "loop_next", loop_begin |-> loop_begin])

\* A loop operation: sieve_interpreter_loop_break
OpLoopBreak ==
    /\ Dispatch
    /\ \E L \in 0..(Len(loop_stack) - 1) :
          LET r == sieve_interpreter_loop_break(AfterOpcode, L)
          IN  Becomes(r.I, r.ret,
                      [op |-> "loop_break", loop |-> L,
                       unrefd |-> r.unrefd])

\* A handler that calls sieve_interpreter_interrupt
OpInterrupt ==
    /\ Dispatch
    /\ pc' = AfterOpcode.pc
    /\ interrupted' = TRUE
    /\ last' = [op |-> "interrupt"]
    /\ fuel' = fuel - 1
    /\ UNCHANGED <<sblock_size, loop_stack, stack_created, loop_limit,
                   parent_loop_level, ret, ipc, ancestors, evars, bvars>>

\* sieve_interpreter_continue returns ret
Return ==
    /\ ipc = "continue"
    /\ ~LoopCondition
    /\ ipc' = "returned"
    /\ last' = [op |-> "return"]
    /\ UNCHANGED <<sblock_size, pc, interrupted, loop_stack, stack_created,
                   loop_limit, parent_loop_level, ret, ancestors, fuel, evars, bvars>>

\* sieve_interpreter_interrupt called by the host between two calls of
\* sieve_interpreter_continue
HostInterrupt ==
    /\ ipc = "returned"
    /\ ancestors = <<>>
    /\ interrupted' = TRUE
    /\ last' = [op |-> "host_interrupt"]
    /\ UNCHANGED <<sblock_size, pc, loop_stack, stack_created, loop_limit,
                   parent_loop_level, ret, ipc, ancestors, fuel, evars, bvars>>

\* The caller resumes a run that returned OK: sieve_interpreter_continue is
\* entered again, lines 1692-1698
Continue ==
    /\ ipc = "returned"
    /\ ancestors = <<>>
    /\ ret = SIEVE_EXEC_OK
    /\ fuel > 0
    /\ interrupted' = FALSE
    /\ ipc' = "continue"
    /\ last' = [op |-> "continue"]
    /\ UNCHANGED <<sblock_size, pc, loop_stack, stack_created, loop_limit,
                   parent_loop_level, ret, ancestors, fuel, evars, bvars>>

(***************************************************************************)
(* A top-level script: sieve_run creates the interpreter with no parent    *)
(* and runs it.  _sieve_interpreter_create has read the header (the debug  *)
(* block id and the extension count, one byte each at least), so the reset *)
(* vector is 2 or more; sieve_interpreter_continue clears interrupted.     *)
(***************************************************************************)
\* No binary is being saved or loaded
\* No result is being built from store actions
StoresIdle ==
    /\ default_mailbox = <<>>
    /\ stores = <<>>
    /\ adds = 0
    /\ aop = [op |-> "none"]

\* No match session
MatchIdle ==
    /\ mctx = [type |-> "none"]
    /\ mvalues = <<>>
    /\ mop = [op |-> "none"]

\* No block of a binary under generation is looked at
ActiveIdle ==
    /\ active_block = 0
    /\ code_size = 0
    /\ code_moved = FALSE

\* No binary whose references are followed
RefsIdle ==
    /\ binary = <<>>
    /\ interps = <<>>
    /\ rop = [op |-> "none"]

\* No program client
ClientIdle ==
    /\ pclient = <<>>
    /\ ppc = "idle"
    /\ pret = 0

OthersIdle ==
    /\ ActiveIdle
    /\ extensions = <<>>
    /\ RefsIdle
    /\ ClientIdle

\* No store action is being executed
StoreIdle ==
    /\ trans = <<>>
    /\ storage = <<>>
    /\ sop = [op |-> "none"]

FileIdle ==
    /\ blocks = <<>>
    /\ linked = <<>>
    /\ disk = <<>>
    /\ saves = 0
    /\ fop = [op |-> "none"]

\* No binary is being written or read
BinaryIdle ==
    /\ wordbits = 32
    /\ code = <<>>
    /\ emitted = <<>>
    /\ cop = [op |-> "none"]
    /\ FileIdle
    /\ StoresIdle
    /\ MatchIdle
    /\ StoreIdle

\* No multiscript session
MultiscriptIdle ==
    /\ active = FALSE
    /\ teststream = FALSE
    /\ keep_action = "act_store"
    /\ executed = FALSE
    /\ run_ret = FALSE
    /\ scripts = 0
    /\ keep_log = <<>>

\* sieve_execute is not part of the run
ExecuteIdle ==
    /\ epc = "idle"
    /\ actions = <<>>
    /\ run_status = SIEVE_EXEC_OK
    /\ status = SIEVE_EXEC_OK
    /\ keep = FALSE
    /\ keeps = <<>>
    /\ MultiscriptIdle

Init ==
    /\ OthersIdle
    /\ BinaryIdle
    /\ ExecuteIdle
    /\ sblock_size \in 2..MaxBlock
    /\ pc = 2
    /\ interrupted = FALSE
    /\ loop_stack = <<>>
    /\ stack_created = FALSE
    /\ loop_limit = 0
    /\ parent_loop_level = 0
    /\ ret = SIEVE_EXEC_OK
    /\ ipc = "continue"
    /\ ancestors = <<>>
    /\ fuel = MaxOps
    /\ last = [op |-> "create"]

Step ==
    \/ LoopBoundaryCheck
    \/ OpNoop
    \/ OpInvalid
    \/ OpRuntimeError
    \/ OpReadByte
    \/ OpReadInteger
    \/ OpReadString
    \/ OpJump
    \/ OpLoopStart
    \/ OpLoopNext
    \/ OpLoopBreak
    \/ OpInterrupt
    \/ Return
    \/ HostInterrupt
    \/ Continue

Next == Step

Spec == Init /\ [][Next]_vars


(***************************************************************************)
(* Properties of the interpreter run (Spec)                                *)
(***************************************************************************)
Top == loop_stack[Len(loop_stack)]
Frames == { loop_stack[i] : i \in 1..Len(loop_stack) }

\* C4, as stated: while the run status is OK the program counter stays
\* within the block, 0 <= pc <= block_size.
C4_PcWithinBlock ==
    ret = SIEVE_EXEC_OK => (0 <= pc /\ pc <= sblock_size)

\* A jump operation was dispatched in this step; the operand starts at the
\* byte after the opcode, and target is operand address + offset
JumpStep == last'.op = "jump"
JumpOperand == pc + 1
JumpTargetOf(offset) == JumpOperand + offset
OffsetReadable == sblock_size - JumpOperand >= 4

\* C5, as stated: program_jump returns OK (and, when the jump is taken, sets
\* pc = target) iff 0 < target <= block_size and (break_loops or
\* target < loop_limit); otherwise BIN_CORRUPT and pc is not set to target.
C5_JumpValidIff_stated ==
    [][JumpStep =>
        LET target == JumpTargetOf(last'.offset)
            valid == /\ OffsetReadable
                     /\ 0 < target /\ target <= sblock_size
                     /\ (last'.break_loops \/ target < loop_limit)
        IN  /\ (ret' = SIEVE_EXEC_OK) <=> valid
            /\ (ret' = SIEVE_EXEC_OK /\ last'.jump) => (last'.taken /\ pc' = target)
            /\ (ret' # SIEVE_EXEC_OK) =>
                   (ret' = SIEVE_EXEC_BIN_CORRUPT /\ ~last'.taken)]_vars

\* C5, amended: program_jump returns OK (and, when the jump is taken, sets
\* pc = target) iff the offset is readable, 0 < target <= block_size and
\* (break_loops, or no loop limit is set (loop_limit = 0), or
\* target < loop_limit); otherwise BIN_CORRUPT and pc is not set to target.
C5_JumpValidIff ==
    [][JumpStep =>
        LET target == JumpTargetOf(last'.offset)
            valid == /\ OffsetReadable
                     /\ 0 < target /\ target <= sblock_size
                     /\ (last'.break_loops \/ loop_limit = 0 \/ target < loop_limit)
        IN  /\ (ret' = SIEVE_EXEC_OK) <=> valid
            /\ (ret' = SIEVE_EXEC_OK /\ last'.jump) => (last'.taken /\ pc' = target)
            /\ (ret' # SIEVE_EXEC_OK) =>
                   (ret' = SIEVE_EXEC_BIN_CORRUPT /\ ~last'.taken)]_vars

\* A jump without break_loops was taken inside a live loop
C5_Witness ==
    /\ last.op = "jump" /\ last.taken /\ ~last.break_loops
    /\ loop_stack # <<>>
    /\ ret = SIEVE_EXEC_OK

\* C6, as stated, for jumps: while a loop frame is live and the status is OK,
\* a taken jump leaves pc at or below loop_limit.
C6_PcWithinLoopLimit ==
    (loop_stack # <<>> /\ ret = SIEVE_EXEC_OK /\ last.op = "jump" /\ last.taken)
        => pc <= loop_limit

\* C7, as stated: loop_limit is the end of the innermost live frame, and 0
\* when no frame is live.
C7_LoopLimitIsInnermostEnd ==
    ret = SIEVE_EXEC_OK =>
        loop_limit = (IF loop_stack = <<>> THEN 0 ELSE Top.end)

\* A valid jump with break_loops was taken in this step
BreakJumpStep == JumpStep /\ last'.break_loops /\ last'.taken

RECURSIVE FramesEndingAfter(_, _)
FramesEndingAfter(loops, target) ==
    IF loops = <<>> THEN <<>>
    ELSE IF loops[1].end > target
         THEN <<loops[1]>> \o FramesEndingAfter(Tail(loops), target)
         ELSE FramesEndingAfter(Tail(loops), target)

\* C indices n-1, n-2, .., k
RECURSIVE Downto(_, _)
Downto(n, k) == IF n <= k THEN <<>> ELSE <<n - 1>> \o Downto(n - 1, k)

InnermostEndingAfter(loops, target) ==
    LET S == { i \in 1..Len(loops) : loops[i].end > target }
    IN  IF S = {} THEN 0 ELSE CHOOSE i \in S : \A j \in S : j <= i

C11_InterruptYields_stated ==
    [][/\ (interrupted /\ ipc = "continue") =>
              (last'.op = "return" /\ ret' = SIEVE_EXEC_OK /\ interrupted'
               /\ pc' = pc)
       /\ (last.op = "host_interrupt") => interrupted']_vars

\* C11, amended: when an operation sets the interrupted flag during
\* sieve_interpreter_continue and returns OK, no further operation is
\* dispatched: the call returns OK reporting interrupted = TRUE with pc at the
\* next undispatched operation, and a later sieve_interpreter_continue
\* resumes there.  sieve_interpreter_continue clears the flag on entry, so a
\* flag set while it is not running is discarded.
C11_InterruptYields ==
    [][/\ (interrupted /\ ipc = "continue") =>
              (last'.op = "return" /\ ret' = SIEVE_EXEC_OK /\ interrupted'
               /\ pc' = pc)
       /\ (last'.op = "continue") =>
              (~interrupted' /\ pc' = pc /\ ret' = SIEVE_EXEC_OK
               /\ ipc' = "continue")]_vars

\* An interrupted run has returned OK with operations left, and was resumed
\* at the same pc
C11_Witness ==
    /\ last.op = "continue" /\ ~interrupted
    /\ pc < sblock_size /\ ret = SIEVE_EXEC_OK /\ ipc = "continue"
    /\ fuel < MaxOps

(***************************************************************************)
(* sieve.c: sieve_execute.  The script is run, then the result is executed *)
(* or, after a runtime error, an implicit keep is attempted.  The result   *)
(* driver (sieve_result_execute) follows the two-phase protocol of the     *)
(* specification, section 4.6; every step below is one hook invocation.    *)
(* An action is [deliver, start, execute, commit, hooks]: deliver is       *)
(* SIEVE_ACTFLAG_TRIES_DELIVER of its definition; start, execute and       *)
(* commit record the outcome of the hook, "none" while it has not been     *)
(* invoked; hooks lists the hooks invoked on the action, in order.         *)
(***************************************************************************)
\* What sieve_run can return: the status of the interpreter run, or
\* BIN_CORRUPT when no interpreter could be created
RunStatuses == {SIEVE_EXEC_OK, SIEVE_EXEC_FAILURE, SIEVE_EXEC_TEMP_FAILURE,
                SIEVE_EXEC_BIN_CORRUPT}
\* What sieve_result_implicit_keep can return
KeepStatuses == {SIEVE_EXEC_OK, SIEVE_EXEC_FAILURE, SIEVE_EXEC_TEMP_FAILURE}

NewAction(deliver) ==
    [deliver |-> deliver, start |-> "none", execute |-> "none",
     commit |-> "none", hooks |-> <<>>]

\* The action lists a script can leave in the result
ActionLists ==
    UNION { [1..n -> { NewAction(d) : d \in BOOLEAN }] : n \in 0..MaxActions }

\* A branch of sieve_execute that skips the implicit keep only for a corrupt
\* binary
AfterRun_keep_on_temp_failure(r) ==
    IF r > 0 THEN "start"
    ELSE IF r = SIEVE_EXEC_BIN_CORRUPT THEN "cleanup"
    ELSE "failure_keep"

\* A branch of sieve_execute that attempts the implicit keep for every run
\* that did not return OK
AfterRun_keep_unless_ok(r) ==
    IF r > 0 THEN "start" ELSE "failure_keep"

\* sieve_execute, lines 559-564: what follows sieve_run returning r
AfterRun(r) ==
    IF r > 0 THEN "start"
    ELSE IF r = SIEVE_EXEC_FAILURE THEN "failure_keep"
    ELSE "cleanup"

\* A switch that reports every failed keep as KEEP_FAILED
KeepSwitch_always_keep_failed(r, k) ==
    IF k = SIEVE_EXEC_OK THEN [ret |-> r, keep |-> TRUE]
    ELSE [ret |-> SIEVE_EXEC_KEEP_FAILED, keep |-> FALSE]

\* sieve_execute, lines 566-575: the switch on the implicit keep's status k
\* after the run returned r
KeepSwitch(r, k) ==
    IF k = SIEVE_EXEC_OK THEN [ret |-> r, keep |-> TRUE]
    ELSE IF k = SIEVE_EXEC_TEMP_FAILURE
         THEN [ret |-> SIEVE_EXEC_TEMP_FAILURE, keep |-> FALSE]
    ELSE [ret |-> SIEVE_EXEC_KEEP_FAILED, keep |-> FALSE]

\* sieve_execute, lines 549-552: *keep = FALSE; ret = sieve_run(..)
SieveRun ==
    /\ epc = "run"
    /\ \E r \in RunStatuses, acts \in ActionLists :
          /\ run_status' = r
          /\ status' = r
          /\ actions' = acts
          /\ epc' = AfterRun(r)
    /\ keep' = FALSE
    /\ UNCHANGED <<ivars, ancestors, bvars, mvars, keeps>>

\* sieve_execute, lines 564-575: implicit keep after a runtime error
FailureKeep ==
    /\ epc = "failure_keep"
    /\ \E k \in KeepStatuses :
          /\ keeps' = Append(keeps, k)
          /\ status' = KeepSwitch(status, k).ret
          /\ keep' = KeepSwitch(status, k).keep
    /\ epc' = "cleanup"
    /\ UNCHANGED <<ivars, ancestors, bvars, mvars, actions, run_status>>

\* sieve_execute, lines 577-581: sieve_result_unref; return ret
Cleanup ==
    /\ epc = "cleanup"
    /\ epc' = "done"
    /\ UNCHANGED <<ivars, ancestors, bvars, mvars, actions, run_status, status, keep, keeps>>


\* ---- sieve_result_execute, after section 4.6 of the specification
Outcome(ok) == IF ok THEN "ok" ELSE "failed"
Invoked(a, hook) == \E j \in 1..Len(a.hooks) : a.hooks[j] = hook
First(S) == CHOOSE i \in S : \A j \in S : i <= j

\* Actions whose start succeeded but that were left without a terminal hook
Unfinished_started_ok(a) ==
    a.start = "ok" /\ ~Invoked(a, "commit") /\ ~Invoked(a, "rollback")

\* An action reached by start that has had no terminal hook yet
Unfinished(a) ==
    Invoked(a, "start") /\ ~Invoked(a, "commit") /\ ~Invoked(a, "rollback")

\* Step 3: an action is committed when every start succeeded, its execute
\* returned success and no commit has failed; it is rolled back otherwise
Commits(acts, i) ==
    /\ \A j \in 1..Len(acts) : acts[j].start # "failed"
    /\ acts[i].execute = "ok"
    /\ \A j \in 1..Len(acts) : acts[j].commit # "failed"

\* A hook of an action has failed
Failed(acts) ==
    \E j \in 1..Len(acts) :
        "failed" \in {acts[j].start, acts[j].execute, acts[j].commit}

\* A delivering action has succeeded
Delivered(acts) ==
    \E j \in 1..Len(acts) : acts[j].deliver /\ acts[j].commit = "ok"

\* Step 1: start every action in order; a failing start ends the phase
ResultStart ==
    /\ epc = "start"
    /\ LET S == { i \in 1..Len(actions) : actions[i].start = "none" } IN
       IF S # {}
       THEN \E ok \in BOOLEAN :
               /\ actions' = [actions EXCEPT
                                 ![First(S)].start = Outcome(ok),
                                 ![First(S)].hooks = Append(@, "start")]
               /\ epc' = IF ok THEN "start" ELSE "finish"
       ELSE epc' = "execute" /\ UNCHANGED actions
    /\ UNCHANGED <<ivars, ancestors, bvars, mvars, run_status, status, keep, keeps>>

\* Step 2: execute every action that started successfully
ResultExecute ==
    /\ epc = "execute"
    /\ LET S == { i \in 1..Len(actions) :
                     actions[i].start = "ok" /\ actions[i].execute = "none" } IN
       IF S # {}
       THEN \E ok \in BOOLEAN :
               /\ actions' = [actions EXCEPT
                                 ![First(S)].execute = Outcome(ok),
                                 ![First(S)].hooks = Append(@, "execute")]
               /\ epc' = "execute"
       ELSE epc' = "finish" /\ UNCHANGED actions
    /\ UNCHANGED <<ivars, ancestors, bvars, mvars, run_status, status, keep, keeps>>

\* Steps 3 and 4: commit or roll back every action reached, in order
ResultFinish ==
    /\ epc = "finish"
    /\ LET S == { i \in 1..Len(actions) : Unfinished(actions[i]) } IN
       IF S # {}
       THEN /\ IF Commits(actions, First(S))
               THEN \E ok \in BOOLEAN :
                       actions' = [actions EXCEPT
                                      ![First(S)].commit = Outcome(ok),
                                      ![First(S)].hooks = Append(@, "commit")]
               ELSE actions' = [actions EXCEPT
                                   ![First(S)].hooks = Append(@, "rollback")]
            /\ epc' = "finish"
       ELSE epc' = "result_keep" /\ UNCHANGED actions
    /\ UNCHANGED <<ivars, ancestors, bvars, mvars, run_status, status, keep, keeps>>

\* Implicit keep of the result, and the status sieve_execute takes from
\* sieve_result_execute (line 562): KEEP_FAILED when the keep fails; the
\* specification leaves open what is returned after a failed action
ResultKeep ==
    /\ epc = "result_keep"
    /\ \E st \in IF Failed(actions) THEN {SIEVE_EXEC_OK, SIEVE_EXEC_FAILURE}
                 ELSE {SIEVE_EXEC_OK} :
          IF Delivered(actions)
          THEN status' = st /\ keep' = FALSE /\ UNCHANGED keeps
          ELSE \E k \in KeepStatuses :
                  /\ keeps' = Append(keeps, k)
                  /\ keep' = (k = SIEVE_EXEC_OK)
                  /\ status' = IF k = SIEVE_EXEC_OK THEN st
                               ELSE SIEVE_EXEC_KEEP_FAILED
    /\ epc' = "cleanup"
    /\ UNCHANGED <<ivars, ancestors, bvars, mvars, actions, run_status>>

InitExecute ==
    /\ OthersIdle
    /\ BinaryIdle
    /\ sblock_size = 2
    /\ pc = 2
    /\ interrupted = FALSE
    /\ loop_stack = <<>>
    /\ stack_created = FALSE
    /\ loop_limit = 0
    /\ parent_loop_level = 0
    /\ ret = SIEVE_EXEC_OK
    /\ ipc = "idle"
    /\ ancestors = <<>>
    /\ fuel = 0
    /\ last = [op |-> "create"]
    /\ epc = "run"
    /\ actions = <<>>
    /\ run_status = SIEVE_EXEC_OK
    /\ status = SIEVE_EXEC_OK
    /\ keep = FALSE
    /\ keeps = <<>>
    /\ MultiscriptIdle

NextExecute ==
    \/ SieveRun
    \/ ResultStart
    \/ ResultExecute
    \/ ResultFinish
    \/ ResultKeep
    \/ FailureKeep
    \/ Cleanup

SpecExecute == InitExecute /\ [][NextExecute]_vars

(***************************************************************************)
(* Properties of sieve_execute (SpecExecute)                               *)
(***************************************************************************)
Returned == epc = "done"
ActionSet == { actions[i] : i \in 1..Len(actions) }
KeepAttempted == keeps # <<>>
KeepSucceeded == \E j \in 1..Len(keeps) : keeps[j] = SIEVE_EXEC_OK

\* C1, as stated: when sieve_execute returns and no delivering action has
\* succeeded, an implicit keep has been attempted, whatever the run returned.
C1_KeepAlwaysAttempted_stated ==
    (Returned /\ ~Delivered(actions)) => KeepAttempted

\* C1, amended: if the run returned FAILURE, sieve_execute attempts the
\* implicit keep exactly once before it returns; if the run returned
\* TEMP_FAILURE or BIN_CORRUPT it attempts no implicit keep, invokes no hook
\* of any action, and returns the run's status with *keep false.  (If the run
\* returned OK the keep is left to sieve_result_execute.)
C1_KeepAttempted ==
    (Returned /\ ~Delivered(actions) /\ run_status # SIEVE_EXEC_OK) =>
        /\ \A a \in ActionSet : a.hooks = <<>>
        /\ IF run_status = SIEVE_EXEC_FAILURE
           THEN Len(keeps) = 1
           ELSE ~KeepAttempted /\ status = run_status /\ ~keep

\* sieve_execute has returned a temporary failure of the run, with actions in
\* the result and without any implicit keep
C1_Witness ==
    /\ Returned /\ run_status = SIEVE_EXEC_TEMP_FAILURE
    /\ status = SIEVE_EXEC_TEMP_FAILURE
    /\ actions # <<>> /\ ~KeepAttempted

\* C2, as stated: sieve_execute returns KEEP_FAILED whenever neither a
\* delivering action nor the implicit keep succeeded.
C2_KeepFailed_stated ==
    (Returned /\ ~Delivered(actions) /\ ~KeepSucceeded)
        => status = SIEVE_EXEC_KEEP_FAILED

\* C2, amended: when the run did not return OK and the implicit keep did not
\* succeed, sieve_execute returns the run's status if that is TEMP_FAILURE or
\* BIN_CORRUPT (no keep is attempted), TEMP_FAILURE if the run returned
\* FAILURE and the implicit keep ended with TEMP_FAILURE, and KEEP_FAILED if
\* the run returned FAILURE and the implicit keep ended with any other
\* non-OK status.
C2_KeepFailed ==
    (Returned /\ run_status # SIEVE_EXEC_OK /\ ~KeepSucceeded) =>
        status = (IF run_status # SIEVE_EXEC_FAILURE THEN run_status
                  ELSE IF keeps = <<SIEVE_EXEC_TEMP_FAILURE>>
                       THEN SIEVE_EXEC_TEMP_FAILURE
                  ELSE SIEVE_EXEC_KEEP_FAILED)

\* After a runtime error the implicit keep failed temporarily, and
\* sieve_execute has returned TEMP_FAILURE
C2_Witness ==
    /\ Returned /\ run_status = SIEVE_EXEC_FAILURE
    /\ keeps = <<SIEVE_EXEC_TEMP_FAILURE>>
    /\ status = SIEVE_EXEC_TEMP_FAILURE /\ ~keep

\* Number of terminal hooks (commit, rollback) invoked on an action
Terminals(a) ==
    Cardinality({ j \in 1..Len(a.hooks) : a.hooks[j] \in {"commit", "rollback"} })

\* C3: an action's commit or rollback is invoked only after its start, never
\* both and never twice; once result execution is over every action whose
\* start was invoked has had exactly one of them.
C3_OneTerminalHook ==
    \A a \in ActionSet :
        /\ Terminals(a) <= 1
        /\ Terminals(a) = 1 => (a.hooks[1] = "start"
                                /\ a.hooks[Len(a.hooks)] \in {"commit", "rollback"})
        /\ (epc \in {"result_keep", "cleanup", "done"} /\ Invoked(a, "start"))
               => Terminals(a) = 1

\* Result execution is over: one action was committed, the commit of a second
\* failed and a third was rolled back
C3_Witness ==
    /\ Returned
    /\ \E a, b, c \in ActionSet :
          /\ a.commit = "ok"
          /\ b.commit = "failed" /\ ~Invoked(b, "rollback")
          /\ Invoked(c, "rollback") /\ c.execute = "ok"

(***************************************************************************)
(* Nested interpreters: an operation of a running script (include) creates *)
(* a sub-interpreter with the running one as its parent, runs it to the    *)
(* end and frees it; the parent is suspended meanwhile.                    *)
(***************************************************************************)
\* _sieve_interpreter_create, lines 955-959; parent is <<>> for a NULL
\* parent and otherwise the sequence of the one parent interpreter
ParentLoopLevel(parent) ==
    IF parent # <<>> /\ parent[1].stack_created
    THEN parent[1].parent_loop_level + Len(parent[1].loop_stack)
    ELSE 0

\* The handler creates a sub-interpreter on a block of `size' bytes, with the
\* running interpreter as parent (sieve_interpreter_create_for_block), and
\* runs it (sieve_interpreter_run)
OpInclude ==
    /\ Dispatch
    /\ Len(ancestors) < MaxNesting
    /\ \E size \in NestedSizes :
          /\ ancestors' = Append(ancestors, AfterOpcode @@ [size |-> sblock_size])
          /\ sblock_size' = size
          /\ pc' = 2
          /\ interrupted' = FALSE
          /\ loop_stack' = <<>>
          /\ stack_created' = FALSE
          /\ loop_limit' = 0
          /\ parent_loop_level' = ParentLoopLevel(<<AfterOpcode>>)
          /\ ret' = SIEVE_EXEC_OK
          /\ ipc' = "continue"
          /\ fuel' = fuel - 1
          /\ last' = [op |-> "include"]
          /\ UNCHANGED <<evars, bvars>>

\* The sub-interpreter has returned and is freed; the handler of the parent
\* returns the status of the sub-run
IncludeReturn ==
    /\ ipc = "returned"
    /\ ancestors # <<>>
    /\ LET parent == ancestors[Len(ancestors)] IN
          /\ ancestors' = SubSeq(ancestors, 1, Len(ancestors) - 1)
          /\ sblock_size' = parent.size
          /\ pc' = parent.pc
          /\ loop_stack' = parent.loop_stack
          /\ stack_created' = parent.stack_created
          /\ loop_limit' = parent.loop_limit
          /\ parent_loop_level' = parent.parent_loop_level
    /\ interrupted' = FALSE
    /\ ipc' = "continue"
    /\ last' = [op |-> "include_return"]
    /\ UNCHANGED <<ret, fuel, evars, bvars>>

InitNested ==
    /\ OthersIdle
    /\ BinaryIdle
    /\ ExecuteIdle
    /\ sblock_size \in NestedSizes
    /\ pc = 2
    /\ interrupted = FALSE
    /\ loop_stack = <<>>
    /\ stack_created = FALSE
    /\ loop_limit = 0
    /\ parent_loop_level = ParentLoopLevel(<<>>)
    /\ ret = SIEVE_EXEC_OK
    /\ ipc = "continue"
    /\ ancestors = <<>>
    /\ fuel = MaxNestedOps
    /\ last = [op |-> "create"]

NextNested ==
    \/ OpNoop
    \/ OpLoopStart
    \/ OpLoopNext
    \/ OpLoopBreak
    \/ OpInclude
    \/ Return
    \/ IncludeReturn

SpecNested == InitNested /\ [][NextNested]_vars

\* Live loop frames of the running interpreter and all its ancestors
RECURSIVE ChainFrames(_)
ChainFrames(chain) ==
    IF chain = <<>> THEN 0
    ELSE Len(chain[1].loop_stack) + ChainFrames(Tail(chain))

TotalFrames == Len(loop_stack) + ChainFrames(ancestors)
\* C10, as stated: the live loop frames of an interpreter and all its
\* ancestors together never exceed SIEVE_MAX_LOOP_DEPTH.
C10_ChainDepthBounded == TotalFrames <= SIEVE_MAX_LOOP_DEPTH

(***************************************************************************)
(* sieve.c: multiscript support.  One step is one call of the interface;   *)
(* the initial state is the one sieve_multiscript_start_execute or         *)
(* sieve_multiscript_start_test returns.  The result functions called      *)
(* (sieve_result_execute, sieve_result_print, sieve_result_implicit_keep)  *)
(* are inputs: their status, the keep they report, and whether the result  *)
(* execution attempts an implicit keep of its own.                         *)
(***************************************************************************)
\* A session that starts with the store action as keep action
StartKeepAction_store == "act_store"

\* sieve_multiscript_start_execute, line 611:
\* sieve_result_set_keep_action(result, NULL, NULL)
StartKeepAction == "NULL"

\* sieve_multiscript_finish / _tempfail:
\* sieve_result_set_keep_action(mscript->result, NULL, &act_store)
FinalKeepAction == "act_store"

\* What sieve_result_execute and sieve_result_print can return
ResultStatuses == {SIEVE_EXEC_OK, SIEVE_EXEC_FAILURE, SIEVE_EXEC_TEMP_FAILURE,
                   SIEVE_EXEC_KEEP_FAILED}

KeepCall(by, action) == [by |-> by, action |-> action]

\* sieve_multiscript_execute after a failed script: `!sieve_result_implicit_keep'
\* is true for a zero status only
MultiscriptFailureKeep(k) ==
    IF k = 0 THEN [status |-> SIEVE_EXEC_KEEP_FAILED, keep |-> FALSE]
    ELSE [status |-> SIEVE_EXEC_FAILURE, keep |-> TRUE]

\* sieve_multiscript_run returns
MultiscriptRunReturn(st, act) == IF st <= 0 THEN FALSE ELSE act

InitMulti ==
    /\ OthersIdle
    /\ BinaryIdle
    /\ sblock_size = 2
    /\ pc = 2
    /\ interrupted = FALSE
    /\ loop_stack = <<>>
    /\ stack_created = FALSE
    /\ loop_limit = 0
    /\ parent_loop_level = 0
    /\ ret = SIEVE_EXEC_OK
    /\ ipc = "idle"
    /\ ancestors = <<>>
    /\ fuel = 0
    /\ last = [op |-> "create"]
    /\ epc = "session"
    /\ actions = <<>>
    /\ run_status = SIEVE_EXEC_OK
    /\ status = SIEVE_EXEC_OK
    /\ keep = TRUE
    /\ keeps = <<>>
    /\ active = TRUE
    /\ teststream \in BOOLEAN
    /\ keep_action = StartKeepAction
    /\ executed = FALSE
    /\ run_ret = TRUE
    /\ scripts = 0
    /\ keep_log = <<>>

\* A sieve_multiscript_run without the test of mscript->active: the
\* script is run in a session that has ended
MultiscriptRunInactive_run_anyway ==
    /\ epc = "session"
    /\ scripts < MaxScripts
    /\ ~active
    /\ \E r \in {SIEVE_EXEC_TEMP_FAILURE, SIEVE_EXEC_BIN_CORRUPT} :
          /\ run_status' = r
          /\ status' = r
    /\ run_ret' = FALSE
    /\ scripts' = scripts + 1
    /\ UNCHANGED <<ivars, ancestors, bvars, epc, actions, keep, keeps, active,
                   teststream, keep_action, executed, keep_log>>

\* sieve_multiscript_run on an inactive session
MultiscriptRunInactive ==
    /\ epc = "session"
    /\ scripts < MaxScripts
    /\ ~active
    /\ run_ret' = FALSE
    /\ scripts' = scripts + 1
    /\ UNCHANGED <<ivars, ancestors, bvars, epc, actions, run_status, status, keep,
                   keeps, active, teststream, keep_action, executed, keep_log>>

\* sieve_multiscript_run: the script ends with a status below zero
MultiscriptRunAborted ==
    /\ epc = "session"
    /\ scripts < MaxScripts
    /\ active
    /\ \E r \in {SIEVE_EXEC_TEMP_FAILURE, SIEVE_EXEC_BIN_CORRUPT} :
          /\ run_status' = r
          /\ status' = r
    /\ run_ret' = FALSE
    /\ scripts' = scripts + 1
    /\ UNCHANGED <<ivars, ancestors, bvars, epc, actions, keep, keeps, active,
                   teststream, keep_action, executed, keep_log>>

\* sieve_multiscript_run, then sieve_multiscript_test
MultiscriptRunTest ==
    /\ epc = "session"
    /\ scripts < MaxScripts
    /\ active /\ teststream
    /\ \E r \in {SIEVE_EXEC_OK, SIEVE_EXEC_FAILURE} :
          /\ run_status' = r
          /\ IF r > 0
             THEN \E st \in ResultStatuses, k \in BOOLEAN :
                     status' = st /\ keep' = k
             ELSE status' = r /\ keep' = TRUE
    /\ executed' = TRUE
    /\ active' = (active /\ keep' /\ status' > 0)
    /\ run_ret' = MultiscriptRunReturn(status', active')
    /\ scripts' = scripts + 1
    /\ UNCHANGED <<ivars, ancestors, bvars, epc, actions, keeps, teststream,
                   keep_action, keep_log>>

\* sieve_multiscript_run, then sieve_multiscript_execute on a script that
\* ended OK: the result is executed
MultiscriptRunExecute ==
    /\ epc = "session"
    /\ scripts < MaxScripts
    /\ active /\ ~teststream
    /\ run_status' = SIEVE_EXEC_OK
    /\ \E st \in ResultStatuses, k \in BOOLEAN, implicit \in BOOLEAN :
          /\ status' = st
          /\ keep' = k
          /\ keep_log' = IF implicit
                         THEN Append(keep_log, KeepCall("result_execute", keep_action))
                         ELSE keep_log
    /\ executed' = TRUE
    /\ active' = (active /\ keep' /\ status' > 0)
    /\ run_ret' = MultiscriptRunReturn(status', active')
    /\ scripts' = scripts + 1
    /\ UNCHANGED <<ivars, ancestors, bvars, epc, actions, keeps, teststream, keep_action>>

\* sieve_multiscript_run, then sieve_multiscript_execute on a script that
\* ended with a runtime error: implicit keep
MultiscriptRunFailed ==
    /\ epc = "session"
    /\ scripts < MaxScripts
    /\ active /\ ~teststream
    /\ run_status' = SIEVE_EXEC_FAILURE
    /\ \E k \in KeepStatuses :
          /\ keeps' = Append(keeps, k)
          /\ status' = MultiscriptFailureKeep(k).status
          /\ keep' = MultiscriptFailureKeep(k).keep
    /\ keep_log' = Append(keep_log, KeepCall("run", keep_action))
    /\ active' = (active /\ keep' /\ status' > 0)
    /\ run_ret' = MultiscriptRunReturn(status', active')
    /\ scripts' = scripts + 1
    /\ UNCHANGED <<ivars, ancestors, bvars, epc, actions, teststream, keep_action, executed>>
\* sieve_multiscript_finish: the switch on the implicit keep's status k, ret
\* being mscript->status
FinishSwitch(r, k, exec) ==
    IF k = SIEVE_EXEC_OK THEN [ret |-> r, keep |-> TRUE]
    ELSE IF k = SIEVE_EXEC_TEMP_FAILURE /\ ~exec
         THEN [ret |-> SIEVE_EXEC_TEMP_FAILURE, keep |-> FALSE]
    ELSE [ret |-> SIEVE_EXEC_KEEP_FAILED, keep |-> FALSE]

\* sieve_multiscript_finish; status becomes the value it returns, keep the
\* value it stores in *keep
MultiscriptFinish ==
    /\ epc = "session"
    /\ keep_action' = FinalKeepAction
    /\ IF active /\ ~teststream
       THEN \E k \in KeepStatuses :
               /\ keeps' = Append(keeps, k)
               /\ keep_log' = Append(keep_log, KeepCall("finish", keep_action'))
               /\ status' = FinishSwitch(status, k, executed).ret
               /\ keep' = (FinishSwitch(status, k, executed).keep \/ keep)
       ELSE /\ keep' = (IF active THEN TRUE ELSE keep)
            /\ UNCHANGED <<status, keeps, keep_log>>
    /\ epc' = "finished"
    /\ UNCHANGED <<ivars, ancestors, bvars, actions, run_status, active, teststream,
                   executed, run_ret, scripts>>

\* sieve_multiscript_tempfail; status becomes the value it returns
MultiscriptTempfail ==
    /\ epc = "session"
    /\ keep_action' = FinalKeepAction
    /\ IF active /\ ~teststream /\ executed
       THEN \E k \in KeepStatuses :
               /\ keeps' = Append(keeps, k)
               /\ keep_log' = Append(keep_log, KeepCall("tempfail", keep_action'))
               /\ status' = IF k = SIEVE_EXEC_OK THEN SIEVE_EXEC_FAILURE
                            ELSE SIEVE_EXEC_KEEP_FAILED
       ELSE /\ status' = IF active THEN SIEVE_EXEC_TEMP_FAILURE ELSE status
            /\ UNCHANGED <<keeps, keep_log>>
    /\ epc' = "finished"
    /\ UNCHANGED <<ivars, ancestors, bvars, actions, run_status, keep, active,
                   teststream, executed, run_ret, scripts>>

NextMulti ==
    \/ MultiscriptRunInactive
    \/ MultiscriptRunAborted
    \/ MultiscriptRunTest
    \/ MultiscriptRunExecute
    \/ MultiscriptRunFailed
    \/ MultiscriptFinish
    \/ MultiscriptTempfail

SpecMulti == InitMulti /\ [][NextMulti]_vars

(***************************************************************************)
(* Properties of a multiscript session (SpecMulti)                         *)
(***************************************************************************)
KeepCalls == { keep_log[i] : i \in 1..Len(keep_log) }

MaxEmits == 2       \* emit calls made on the block

\* sizeof(sieve_size_t) * 8: an ILP32 or an LP64 build
WordBits == {32, 64}
Groups(w) == (w + 6) \div 7
TopMod(w) == 2 ^ (w - 7 * (Groups(w) - 1))
WordZero(w) == [i \in 1..Groups(w) |-> 0]

\* The word whose n low groups are <<1, g, .., g>>; n = 0 is zero
WordOf(w, n, g) ==
    [i \in 1..Groups(w) |->
        IF i <= Groups(w) - n THEN 0 ELSE IF i = Groups(w) - n + 1 THEN 1 ELSE g]
\* The largest word, 2^w - 1
WordMax(w) == [i \in 1..Groups(w) |-> IF i = 1 THEN TopMod(w) - 1 ELSE 127]
\* Words handed to sieve_binary_emit_integer
WordValues(w) ==
    { WordOf(w, n, g) : n \in {0, 2, Groups(w)}, g \in {0, 127} }
        \cup {WordMax(w)}

\* A word below 2^14 and its value; the word of a small number
Small(x) == \A i \in 1..(Len(x) - 2) : x[i] = 0
IntOf(x) == x[Len(x) - 1] * 128 + x[Len(x)]
WordOfInt(w, n) ==
    [i \in 1..Groups(w) |->
        IF i = Groups(w) THEN n % 128
        ELSE IF i = Groups(w) - 1 THEN (n \div 128) % 128
        ELSE 0]

\* The groups sieve_binary_emit_integer stores: the low group, then one more
\* per pass of `while ( integer > 0 )' after `integer >>= 7', that is, down
\* from the highest group that is not zero; the buffer is filled from its
\* right end, so they come out most significant first
EmitGroupCount(integer) ==
    LET nz == { i \in 1..Len(integer) : integer[i] # 0 }
    IN  IF nz = {} THEN 1
        ELSE Len(integer) + 1 - (CHOOSE i \in nz : \A j \in nz : i <= j)
emit_integer_fill(integer) ==
    [i \in 1..EmitGroupCount(integer) |->
        integer[Len(integer) - EmitGroupCount(integer) + i]]

\* sizeof(buffer) in sieve_binary_emit_integer
EmitBufferSize(w) == (w \div 8) + 1
\* buffer[i] |= 0x80 for every byte but the last
WithContinuation(g) ==
    [i \in 1..Len(g) |-> IF i < Len(g) THEN 128 + (g[i] % 128) ELSE g[i]]
\* What may be found in the byte below the buffer after it was written out
\* of bounds: what was written, or what another owner of the byte left
\* there (with the continuation bit or'ed in)
ClobberedBytes == {128, 255}

\* sieve_binary_emit_integer: the byte sequences it may append.  A value of
\* more groups than the buffer has bytes is stored below buffer[0]: undefined
\* behaviour, any of the outcomes.
sieve_binary_emit_integer(w, integer) ==
    LET g == emit_integer_fill(integer)
        bytes == WithContinuation(g)
    IN  IF Len(g) <= EmitBufferSize(w)
        THEN {bytes}
        ELSE {bytes} \cup { [bytes EXCEPT ![1] = b] : b \in ClobberedBytes }

\* sieve_binary_emit_string / sieve_binary_emit_dynamic_data: the length as
\* integer, the bytes, a NUL
sieve_binary_emit_string(w, str) ==
    { len \o str \o <<0>> : len \in sieve_binary_emit_integer(w, WordOfInt(w, Len(str))) }

\* ADDR_DATA_AT: inside the block the byte stored there; past its end
\* whatever the memory holds
ADDR_DATA_AT(c, beyond, address) ==
    IF address < Len(c) THEN c[address + 1] ELSE beyond

\* The passes of `while ( (ADDR_DATA_AT & 0x80) > 0 )' in
\* sieve_binary_read_integer: pass j looks at address + j with bits = w - 7j;
\* the loop ends at the first byte without continuation bit, or fails at the
\* first pass that finds no byte left or no bit left
read_integer_passes(w, c, beyond, address) ==
    LET ends == { j \in 0..Groups(w) :
                    \/ ADDR_DATA_AT(c, beyond, address + j) < 128
                    \/ Len(c) - (address + j) <= 0
                    \/ w - 7 * j <= 0 }
    IN  CHOOSE j \in ends : \A k \in ends : j <= k

\* *integer after n bytes: each pass or's the low seven bits of a byte in and
\* shifts the word left by seven, the last byte is or'ed in; what is shifted
\* beyond the word is lost
read_integer_value(w, c, beyond, address, n) ==
    [i \in 1..Groups(w) |->
        IF n - Groups(w) + i < 1 THEN 0
        ELSE IF i = 1
        THEN (ADDR_DATA_AT(c, beyond, address + n - Groups(w)) % 128) % TopMod(w)
        ELSE ADDR_DATA_AT(c, beyond, address + n - Groups(w) + i - 1) % 128]

\* sieve_binary_read_integer at the width of the build; inspected is the
\* highest address whose byte was looked at
sieve_binary_read_integer_w(w, c, beyond, address) ==
    LET j == read_integer_passes(w, c, beyond, address) IN
    IF Len(c) - address = 0
    THEN [ok |-> FALSE, address |-> address, val |-> WordZero(w), inspected |-> -1]
    ELSE IF ADDR_DATA_AT(c, beyond, address + j) >= 128
    THEN [ok |-> FALSE, address |-> address + j,
          val |-> read_integer_value(w, c, beyond, address, j),
          inspected |-> address + j]
    ELSE [ok |-> TRUE, address |-> address + j + 1,
          val |-> read_integer_value(w, c, beyond, address, j + 1),
          inspected |-> address + j]

\* The bytes address .. address + n - 1 of memory
MemoryAt(c, beyond, address, n) ==
    [i \in 1..n |-> ADDR_DATA_AT(c, beyond, address + i - 1)]

\* A read_string that does not look at the byte after the payload
read_string_unterminated(n, c, beyond) ==
    IF ~n.ok
    THEN [ok |-> FALSE, address |-> n.address, str |-> <<>>,
          inspected |-> n.inspected]
    ELSE IF Len(c) - n.address >= 0
            /\ (~Small(n.val) \/ IntOf(n.val) > Len(c) - n.address)
    THEN [ok |-> FALSE, address |-> n.address, str |-> <<>>,
          inspected |-> n.inspected]
    ELSE [ok |-> TRUE, address |-> n.address + IntOf(n.val) + 1,
          str |-> MemoryAt(c, beyond, n.address, IntOf(n.val)),
          inspected |-> n.address + IntOf(n.val)]

\* sieve_binary_read_string at the width of the build, n being what its
\* sieve_binary_read_integer call returned.  ADDR_BYTES_LEFT wraps to
\* 2^w - 1, which no length exceeds, when the length was read up to one byte
\* past the block.
sieve_binary_read_string_w(n, c, beyond) ==
    IF ~n.ok
    THEN [ok |-> FALSE, address |-> n.address, str |-> <<>>,
          inspected |-> n.inspected]
    ELSE IF Len(c) - n.address >= 0
            /\ (~Small(n.val) \/ IntOf(n.val) > Len(c) - n.address)
    THEN [ok |-> FALSE, address |-> n.address, str |-> <<>>,
          inspected |-> n.inspected]
    ELSE IF ADDR_DATA_AT(c, beyond, n.address + IntOf(n.val)) # 0
    THEN [ok |-> FALSE, address |-> n.address + IntOf(n.val),
          str |-> MemoryAt(c, beyond, n.address, IntOf(n.val)),
          inspected |-> n.address + IntOf(n.val)]
    ELSE [ok |-> TRUE, address |-> n.address + IntOf(n.val) + 1,
          str |-> MemoryAt(c, beyond, n.address, IntOf(n.val)),
          inspected |-> n.address + IntOf(n.val)]

(***************************************************************************)
(* A block is written with the emit functions and read back with the read  *)
(* functions (SpecCodec)                                                   *)
(***************************************************************************)
\* Byte sequences handed to sieve_binary_emit_data: bytes with the
\* continuation bit, followed or not by one without; length-prefixed payloads
\* with a wrong terminator, with none, with too long a length; an offset
RawData ==
    { [i \in 1..(k + 1) |-> IF i <= k THEN 255 ELSE 1] : k \in {5, 10, 11} }
        \cup { <<128>>, <<0>>, <<1>>, <<1, 65>>, <<1, 65, 1>>, <<0, 0, 0, 1>> }
\* Strings handed to sieve_binary_emit_string
Strings == { <<>>, <<0, 65>> }
\* What the byte past the end of the block may hold
BeyondBytes == {0, 128}

\* No interpreter is running
InterpreterIdle ==
    /\ sblock_size = 2
    /\ pc = 2
    /\ interrupted = FALSE
    /\ loop_stack = <<>>
    /\ stack_created = FALSE
    /\ loop_limit = 0
    /\ parent_loop_level = 0
    /\ ret = SIEVE_EXEC_OK
    /\ ipc = "idle"
    /\ ancestors = <<>>
    /\ fuel = 0
    /\ last = [op |-> "create"]

\* sieve_binary_create_new: an empty active block
InitCodec ==
    /\ OthersIdle
    /\ InterpreterIdle
    /\ ExecuteIdle
    /\ FileIdle
    /\ StoresIdle
    /\ MatchIdle
    /\ StoreIdle
    /\ wordbits \in WordBits
    /\ code = <<>>
    /\ emitted = <<>>
    /\ cop = [op |-> "none"]

\* The block is written, then looked at with one read call
Writing == cop.op = "none" /\ Len(emitted) < MaxEmits
Reading == cop.op = "none"

\* An emit call appended bytes at the end of the block and returned the
\* address where they start
Emitted(kind, value, bytes) ==
    /\ code' = code \o bytes
    /\ emitted' = Append(emitted, [kind |-> kind, at |-> Len(code),
                                   len |-> Len(bytes), value |-> value])
    /\ UNCHANGED <<ivars, ancestors, evars, xvars, fvars, rvars, tvars, svars,
                   wordbits, cop>>

\* sieve_binary_emit_data / sieve_binary_emit_byte
EmitData ==
    /\ Writing
    /\ \E data \in RawData : Emitted("data", data, data)

EmitInteger ==
    /\ Writing
    /\ \E integer \in WordValues(wordbits) :
        \E bytes \in sieve_binary_emit_integer(wordbits, integer) :
            Emitted("integer", integer, bytes)

EmitString ==
    /\ Writing
    /\ \E str \in Strings :
        \E bytes \in sieve_binary_emit_string(wordbits, str) :
            Emitted("string", str, bytes)

\* A read call at an address an emit call returned
Read(op, at, beyond, rd) ==
    /\ cop' = [op |-> op, at |-> at, size |-> Len(code), beyond |-> beyond,
               rd |-> rd]
    /\ UNCHANGED <<ivars, ancestors, evars, xvars, fvars, rvars, tvars, svars,
                   wordbits, code, emitted>>

ReadByte ==
    /\ Reading
    /\ \E e \in 1..Len(emitted) :
        \E rd \in { sieve_binary_read_byte(Len(code), emitted[e].at,
                        MemoryAt(code, 0, emitted[e].at, 1)) } :
            Read("read_byte", emitted[e].at, 0,
                 [ok |-> rd.ok, address |-> rd.address, val |-> rd.val,
                  inspected |-> IF rd.ok THEN emitted[e].at ELSE -1])

\* sieve_binary_read_code: as read_byte, the byte taken as a (signed) char
ReadCode ==
    /\ Reading
    /\ \E e \in 1..Len(emitted) :
        \E rd \in { sieve_binary_read_byte(Len(code), emitted[e].at,
                        MemoryAt(code, 0, emitted[e].at, 1)) } :
            Read("read_code", emitted[e].at, 0,
                 [ok |-> rd.ok, address |-> rd.address,
                  val |-> IF rd.val >= 128 THEN rd.val - 256 ELSE rd.val,
                  inspected |-> IF rd.ok THEN emitted[e].at ELSE -1])

ReadOffset ==
    /\ Reading
    /\ \E e \in 1..Len(emitted) :
        \E rd \in { sieve_binary_read_offset(Len(code), emitted[e].at,
                        MemoryAt(code, 0, emitted[e].at, 4)) } :
            Read("read_offset", emitted[e].at, 0,
                 [ok |-> rd.ok, address |-> rd.address, val |-> rd.val,
                  inspected |-> IF rd.ok THEN emitted[e].at + 3 ELSE -1])

ReadInteger ==
    /\ Reading
    /\ \E e \in 1..Len(emitted), beyond \in BeyondBytes :
        \E rd \in { sieve_binary_read_integer_w(wordbits, code, beyond,
                                                emitted[e].at) } :
            Read("read_integer", emitted[e].at, beyond, rd)

\* The address after the payload is computed in the model's integers: the
\* call is made where the length read is below 2^14
StringLengthSmall(n, size) == n.ok /\ size - n.address < 0 => Small(n.val)

ReadString ==
    /\ Reading
    /\ \E e \in 1..Len(emitted), beyond \in BeyondBytes :
        \E n \in { sieve_binary_read_integer_w(wordbits, code, beyond,
                                               emitted[e].at) } :
            /\ StringLengthSmall(n, Len(code))
            /\ \E rd \in { sieve_binary_read_string_w(n, code, beyond) } :
                  Read("read_string", emitted[e].at, beyond, rd)

NextCodec ==
    \/ EmitData
    \/ EmitInteger
    \/ EmitString
    \/ ReadByte
    \/ ReadCode
    \/ ReadOffset
    \/ ReadInteger
    \/ ReadString

SpecCodec == InitCodec /\ [][NextCodec]_vars

(***************************************************************************)
(* Properties of the emit and read functions (SpecCodec)                   *)
(***************************************************************************)
\* The emit calls that returned the address the latest read started at
EmittedAtRead(kind) ==
    { e \in 1..Len(emitted) : emitted[e].kind = kind /\ emitted[e].at = cop.at }

\* C14: sieve_binary_read_integer applied at the address returned by
\* sieve_binary_emit_integer(x) succeeds, yields x and advances the address
\* by the number of bytes emitted, for every x of the word type.
C14_IntegerRoundTrip ==
    cop.op = "read_integer" =>
        \A e \in EmittedAtRead("integer") :
            /\ cop.rd.ok
            /\ cop.rd.val = emitted[e].value
            /\ cop.rd.address = emitted[e].at + emitted[e].len

\* The bytes the latest read call went over
Consumed == MemoryAt(code, cop.beyond, cop.at, cop.rd.address - cop.at)

\* The number a sequence of varint bytes denotes is below 2^w: no bit that is
\* set lies above the word
FitsWord(w, bytes) ==
    \A p \in 1..Len(bytes) :
        /\ Len(bytes) - p >= Groups(w) => bytes[p] % 128 = 0
        /\ Len(bytes) - p = Groups(w) - 1 => bytes[p] % 128 < TopMod(w)

\* C15: sieve_binary_read_integer succeeds only on a byte sequence whose
\* value bits fit the word: it never returns success with high-order bits
\* shifted out.
C15_OverflowIsCorrupt ==
    cop.op = "read_integer" /\ cop.rd.ok => FitsWord(wordbits, Consumed)

\* C16: a read primitive that succeeds has inspected only bytes at addresses
\* below the size of the block and leaves the address at most at the size;
\* so a varint whose last byte in the block has the continuation bit set
\* and a string whose payload runs to the end of the block are failures.
C16_ReadsWithinBlock ==
    cop.op # "none" /\ cop.rd.ok =>
        /\ cop.rd.inspected < cop.size
        /\ cop.rd.address <= cop.size

\* The length prefix found where the latest read started
LengthPrefix == sieve_binary_read_integer_w(wordbits, code, cop.beyond, cop.at)

\* C17: sieve_binary_read_string applied to what sieve_binary_emit_string(s)
\* emitted returns s and advances past the terminating NUL; where no length
\* can be read, the payload does not fit, or the byte following the payload
\* is not 0x00, it fails.
C17_StringRoundTrip ==
    cop.op = "read_string" =>
        /\ \A e \in EmittedAtRead("string") :
              /\ cop.rd.ok
              /\ cop.rd.str = emitted[e].value
              /\ cop.rd.address = emitted[e].at + emitted[e].len
        /\ ~LengthPrefix.ok => ~cop.rd.ok
        /\ LengthPrefix.ok /\ cop.size - LengthPrefix.address >= 0 =>
              /\ IntOf(LengthPrefix.val) > cop.size - LengthPrefix.address
                    => ~cop.rd.ok
              /\ ADDR_DATA_AT(code, cop.beyond,
                              LengthPrefix.address + IntOf(LengthPrefix.val)) # 0
                    => ~cop.rd.ok

\* A string with an embedded NUL was emitted, more was emitted after it, and
\* the string was read back
C17_Witness ==
    /\ cop.op = "read_string"
    /\ cop.rd.ok
    /\ Len(emitted) = 2
    /\ cop.at = 0
    /\ emitted[1].kind = "string"
    /\ emitted[1].value = <<0, 65>>
    /\ cop.rd.str = <<0, 65>>

(***************************************************************************)
(* sieve-binary.c: saving a binary to a file and loading it.  A file is    *)
(* the sequence of its bytes; the host is little-endian.                   *)
(***************************************************************************)
MaxFileBlocks == 3  \* blocks of a binary
MaxLinked == 2      \* extensions linked to a binary
MaxSaves == 1       \* sieve_binary_save calls on a binary

\* 0xdeadbeaf and 0xefbeadde as they lie in memory
SIEVE_BINARY_MAGIC == <<175, 190, 173, 222>>
SIEVE_BINARY_MAGIC_OTHER_ENDIAN == <<222, 173, 190, 239>>
SIEVE_BINARY_VERSION_MAJOR == 0
SIEVE_BINARY_VERSION_MINOR == 0
SIEVE_BINARY_ALIGN(offset) == ((offset + 3) \div 4) * 4

\* The extension registry (sieve_extension_get_by_id, _get_by_name): ids with
\* names "a", "bb", "ccc"
Extensions == 0..2
ExtensionName(ext_id) == [i \in 1..(ext_id + 1) |-> 97 + ext_id]
sieve_extension_get_by_name(name) ==
    IF \E x \in Extensions : ExtensionName(x) = name
    THEN CHOOSE x \in Extensions : ExtensionName(x) = name
    ELSE -1

\* uint16_t and uint32_t fields in memory
U16(n) == <<n % 256, (n \div 256) % 256>>
U32(n) == <<n % 256, (n \div 256) % 256, (n \div 65536) % 256,
            (n \div 16777216) % 256>>
ReadU16(mem, offset) == mem[offset + 1] + 256 * mem[offset + 2]
ReadU32(mem, offset) ==
    mem[offset + 1] + 256 * mem[offset + 2] + 65536 * mem[offset + 3]
        + 16777216 * mem[offset + 4]
Zeroes(n) == [i \in 1..n |-> 0]

\* struct sieve_binary_header, sieve_binary_block_index, _block_header
BinaryHeader(magic, major, minor, blk_count) ==
    magic \o U16(major) \o U16(minor) \o U32(blk_count)
BlockIndexRecord(id, size, offset, ext_id) ==
    U32(id) \o U32(size) \o U32(offset) \o U32(ext_id)
BlockHeader(id, size) == U32(id) \o U32(size)

\* sieve_binary_emit_integer of a small number (one outcome)
EmitSmall(w, n) ==
    CHOOSE bytes \in sieve_binary_emit_integer(w, WordOfInt(w, n)) : TRUE

\* _sieve_binary_save, lines 459-468: what is emitted to the extensions
\* block: the number of linked extensions, then their names as cstrings
RECURSIVE EmitExtensionNames(_, _, _)
EmitExtensionNames(w, exts, i) ==
    IF i > Len(exts) THEN <<>>
    ELSE EmitSmall(w, Len(ExtensionName(exts[i]))) \o ExtensionName(exts[i])
            \o <<0>> \o EmitExtensionNames(w, exts, i + 1)
EmitExtensions(w, exts) == EmitSmall(w, Len(exts)) \o EmitExtensionNames(w, exts, 1)

\* The blocks after sieve_binary_save emitted to the extensions block
WithExtensionsBlock(w, bs, exts) ==
    [bs EXCEPT ![1].data = bs[1].data \o EmitExtensions(w, exts)]

\* A save that does not align
save_unaligned(stream, data) == stream \o data

\* _save_aligned: zeroes up to the aligned offset, then the data
save_aligned(stream, data) ==
    stream \o Zeroes(SIEVE_BINARY_ALIGN(Len(stream)) - Len(stream)) \o data

\* _save_block for blocks i.. of bs: header and data, both aligned; the
\* offsets of the block headers are collected for the index
RECURSIVE save_blocks(_, _, _, _)
save_blocks(bs, i, stream, offsets) ==
    IF i > Len(bs) THEN [stream |-> stream, offsets |-> offsets]
    ELSE save_blocks(bs, i + 1,
            save_aligned(save_aligned(stream,
                                      BlockHeader(i - 1, Len(bs[i].data))),
                         bs[i].data),
            Append(offsets, SIEVE_BINARY_ALIGN(Len(stream))))

\* _save_block_index_record for every block
RECURSIVE save_block_index(_, _, _)
save_block_index(bs, offsets, i) ==
    IF i > Len(bs) THEN <<>>
    ELSE BlockIndexRecord(i - 1, Len(bs[i].data), offsets[i], bs[i].ext_index)
            \o save_block_index(bs, offsets, i + 1)

\* _sieve_binary_save when every step succeeds: the header, the room skipped
\* for the index, the blocks; then the index at block_index.  When the seek
\* back to block_index fails (its result is not looked at) the index follows
\* the blocks and the room skipped stays zero.
sieve_binary_save_image(bs, seek_ok) ==
    LET header == save_aligned(<<>>, BinaryHeader(SIEVE_BINARY_MAGIC,
                     SIEVE_BINARY_VERSION_MAJOR, SIEVE_BINARY_VERSION_MINOR,
                     Len(bs)))
        block_index == SIEVE_BINARY_ALIGN(Len(header))
        skipped == header \o Zeroes(block_index + 16 * Len(bs) - Len(header))
        saved == save_blocks(bs, 1, skipped, <<>>)
        index == save_block_index(bs, saved.offsets, 1)
    IN  IF seek_ok
        THEN [i \in 1..Len(saved.stream) |->
                IF i > block_index /\ i <= block_index + Len(index)
                THEN index[i - block_index] ELSE saved.stream[i]]
        ELSE saved.stream \o index

\* load_aligned_data / load_aligned_buffer: the aligned offset if size bytes
\* are there, -1 otherwise
load_aligned(mem, offset, size) ==
    IF SIEVE_BINARY_ALIGN(offset) + size <= Len(mem)
    THEN SIEVE_BINARY_ALIGN(offset) ELSE -1

\* _load_block_index_record for the records i .. blk_count - 1: how many were
\* accepted
RECURSIVE load_block_index(_, _, _, _)
load_block_index(mem, offset, i, blk_count) ==
    IF i >= blk_count THEN i
    ELSE IF load_aligned(mem, offset, 16) < 0 THEN i
    ELSE IF ReadU32(mem, load_aligned(mem, offset, 16)) # i THEN i
    ELSE load_block_index(mem, load_aligned(mem, offset, 16) + 16, i + 1, blk_count)

\* _load_block: [ok, data, offset]
load_block(mem, offset, id) ==
    LET h == load_aligned(mem, offset, 8) IN
    IF h < 0 THEN [ok |-> FALSE, data |-> <<>>, offset |-> offset]
    ELSE IF ReadU32(mem, h) # id THEN [ok |-> FALSE, data |-> <<>>, offset |-> h + 8]
    ELSE IF load_aligned(mem, h + 8, ReadU32(mem, h + 4)) < 0
    THEN [ok |-> FALSE, data |-> <<>>, offset |-> h + 8]
    ELSE [ok |-> TRUE,
          data |-> SubSeq(mem, load_aligned(mem, h + 8, ReadU32(mem, h + 4)) + 1,
                          load_aligned(mem, h + 8, ReadU32(mem, h + 4))
                              + ReadU32(mem, h + 4)),
          offset |-> load_aligned(mem, h + 8, ReadU32(mem, h + 4))
                        + ReadU32(mem, h + 4)]

\* sieve_binary_extension_link: an extension not yet registered is appended
sieve_binary_extension_link(exts, ext_id) ==
    IF ext_id \in Extensions /\ \A i \in 1..Len(exts) : exts[i] # ext_id
    THEN Append(exts, ext_id) ELSE exts

\* The loop of _sieve_binary_load_extensions: count names are read from the
\* extensions block c, each looked up and linked
RECURSIVE load_extension_names(_, _, _, _, _)
load_extension_names(w, c, address, count, exts) ==
    IF count = 0 THEN [ok |-> TRUE, linked |-> exts]
    ELSE LET rd == sieve_binary_read_string_w(
                       sieve_binary_read_integer_w(w, c, 0, address), c, 0)
         IN  IF ~rd.ok THEN [ok |-> FALSE, linked |-> exts]
             ELSE IF sieve_extension_get_by_name(rd.str) < 0
             THEN [ok |-> FALSE, linked |-> exts]
             ELSE load_extension_names(w, c, rd.address, count - 1,
                      sieve_binary_extension_link(exts,
                          sieve_extension_get_by_name(rd.str)))

\* _sieve_binary_load_extensions
sieve_binary_load_extensions(w, c) ==
    LET count == sieve_binary_read_integer_w(w, c, 0, 0) IN
    IF ~count.ok \/ ~Small(count.val) THEN [ok |-> FALSE, linked |-> <<>>]
    ELSE load_extension_names(w, c, count.address, IntOf(count.val), <<>>)

\* The blocks 1 .. of a file whose index and extensions block were loaded
RECURSIVE load_blocks(_, _, _, _, _)
load_blocks(mem, offset, i, blk_count, datas) ==
    IF i >= blk_count THEN [ok |-> TRUE, datas |-> datas]
    ELSE LET b == load_block(mem, offset, i) IN
         IF ~b.ok THEN [ok |-> FALSE, datas |-> datas]
         ELSE load_blocks(mem, b.offset, i + 1, blk_count, Append(datas, b.data))

\* What a load found: nothing was interpreted
LoadRejected ==
    [ok |-> FALSE, blocks |-> <<>>, linked |-> <<>>, index_records |-> 0,
     blocks_loaded |-> 0, extensions_read |-> FALSE]

\* A header check that does not look at the version
load_header_any_version(mem) ==
    [present |-> load_aligned(mem, 0, 12) >= 0,
     magic_ok |-> load_aligned(mem, 0, 12) >= 0
                  /\ SubSeq(mem, 1, 4) = SIEVE_BINARY_MAGIC,
     version_ok |-> TRUE]

\* The header checks of _sieve_binary_load, lines 666-685
sieve_binary_load_header(mem) ==
    [present |-> load_aligned(mem, 0, 12) >= 0,
     magic_ok |-> load_aligned(mem, 0, 12) >= 0
                  /\ SubSeq(mem, 1, 4) = SIEVE_BINARY_MAGIC,
     version_ok |-> load_aligned(mem, 0, 12) >= 0
                  /\ ReadU16(mem, 4) = SIEVE_BINARY_VERSION_MAJOR
                  /\ ReadU16(mem, 6) = SIEVE_BINARY_VERSION_MINOR]

\* _sieve_binary_load: [ok, blocks, linked] and what was interpreted
sieve_binary_load_file(w, mem) ==
    LET h == sieve_binary_load_header(mem)
    IN  IF ~h.present \/ ~h.magic_ok \/ ~h.version_ok THEN LoadRejected
        ELSE IF ReadU32(mem, 8) = 0 THEN LoadRejected
        ELSE LET blk_count == ReadU32(mem, 8)
                 indexed == load_block_index(mem, 12, 0, blk_count)
                 ext_index == [i \in 1..blk_count |-> ReadU32(mem, 12 + 16 * (i - 1) + 12)]
                 b0 == load_block(mem, 12 + 16 * blk_count, 0)
                 exts == sieve_binary_load_extensions(w, b0.data)
                 rest == load_blocks(mem, b0.offset, 1, blk_count, <<b0.data>>)
             IN  IF indexed < blk_count
                 THEN [LoadRejected EXCEPT !.index_records = indexed]
                 ELSE IF ~b0.ok
                 THEN [LoadRejected EXCEPT !.index_records = indexed]
                 ELSE IF ~exts.ok
                 THEN [LoadRejected EXCEPT !.index_records = indexed,
                                           !.blocks_loaded = 1,
                                           !.extensions_read = TRUE]
                 ELSE [ok |-> rest.ok,
                       blocks |-> [i \in 1..Len(rest.datas) |->
                                      [data |-> rest.datas[i],
                                       ext_index |-> ext_index[i]]],
                       linked |-> exts.linked,
                       index_records |-> indexed,
                       blocks_loaded |-> Len(rest.datas),
                       extensions_read |-> TRUE]

(***************************************************************************)
(* SpecFile: a binary is generated, saved to path, and the file at path is *)
(* loaded.  disk holds the files at path and at path.tmp; fop is the last  *)
(* file operation and its outcome.                                         *)
(***************************************************************************)
BlockData == { <<>>, <<7>>, <<1, 2, 3, 4, 5>> }
NoFile == [exists |-> FALSE, data |-> <<>>]
FileOf(data) == [exists |-> TRUE, data |-> data]
NewBlock == [data |-> <<>>, ext_index |-> 0]

\* The steps of sieve_binary_save that can fail: "none" is a save whose
\* every step succeeds
SaveFailures ==
    {"none", "open", "header", "skip", "block", "seek", "index", "close",
     "rename"}
\* Files at path that no save of this build wrote
ForeignHeaders == {"magic_reversed", "magic_other_endian", "major", "minor"}

\* sieve_binary_create_new: the extensions block and the main program block
InitFile ==
    /\ OthersIdle
    /\ InterpreterIdle
    /\ ExecuteIdle
    /\ StoresIdle
    /\ MatchIdle
    /\ StoreIdle
    /\ wordbits \in WordBits
    /\ code = <<>>
    /\ emitted = <<>>
    /\ cop = [op |-> "none"]
    /\ blocks = <<NewBlock, NewBlock>>
    /\ linked = <<>>
    /\ disk = [path |-> NoFile, tmp |-> NoFile]
    /\ saves = 0
    /\ fop = [op |-> "none", origin |-> "none", result |-> FALSE,
              before |-> [blocks |-> <<>>, linked |-> <<>>, path |-> NoFile],
              loaded |-> LoadRejected, activated |-> FALSE]

Generating == saves = 0 /\ fop.op = "none"

\* sieve_binary_block_create / sieve_binary_extension_create_block
BlockCreate ==
    /\ Generating
    /\ Len(blocks) < MaxFileBlocks
    /\ blocks' = Append(blocks, NewBlock)
    /\ UNCHANGED <<ivars, ancestors, evars, xvars, cvars, rvars, tvars, svars,
                   linked, disk, saves,
                   fop>>

\* sieve_binary_block_set_active and emission to a block of the program
BlockEmit ==
    /\ Generating
    /\ \E id \in 1..(Len(blocks) - 1), data \in BlockData \ {<<>>} :
        /\ blocks[id + 1].data = <<>>
        /\ blocks' = [blocks EXCEPT ![id + 1].data = data]
    /\ UNCHANGED <<ivars, ancestors, evars, xvars, cvars, rvars, tvars, svars,
                   linked, disk, saves,
                   fop>>

\* sieve_binary_extension_link
ExtensionLink ==
    /\ Generating
    /\ Len(linked) < MaxLinked
    /\ \E ext_id \in Extensions :
        /\ sieve_binary_extension_link(linked, ext_id) # linked
        /\ linked' = sieve_binary_extension_link(linked, ext_id)
    /\ UNCHANGED <<ivars, ancestors, evars, xvars, cvars, rvars, tvars, svars,
                   blocks, disk, saves,
                   fop>>

\* sieve_binary_save: result, the binary and the files it leaves when the
\* step fail fails ("none": no step fails).  lost is the number of bytes a
\* failed close() did not bring to the file.
SaveOutcome(fail, lost) ==
    LET emitted_to == IF fail \in {"open", "header", "skip"} THEN blocks
                      ELSE WithExtensionsBlock(wordbits, blocks, linked)
        result == fail \in {"none", "seek", "close"}
        image == sieve_binary_save_image(emitted_to, fail # "seek")
    IN  [result |-> result,
         blocks |-> emitted_to,
         path |-> IF ~result THEN disk.path
                  ELSE IF fail = "close"
                  THEN FileOf(SubSeq(image, 1, Len(image) - lost))
                  ELSE FileOf(image),
         tmp |-> IF fail = "open" THEN disk.tmp ELSE NoFile]

\* sieve_binary_save; MaxSaves bounds the saves of a session, and a binary
\* that was saved without a failure may be saved once more
Save ==
    /\ \/ saves < MaxSaves
       \/ saves = MaxSaves /\ fop.op = "save" /\ fop.origin = "none"
    /\ fop.op \in {"none", "save"}
    /\ \E fail \in SaveFailures, lost \in {0, 1} :
        /\ lost = 1 => fail = "close"
        /\ \E out \in { SaveOutcome(fail, lost) } :
            /\ blocks' = out.blocks
            /\ disk' = [path |-> out.path, tmp |-> out.tmp]
            /\ fop' = [op |-> "save", origin |-> fail, result |-> out.result,
                       before |-> [blocks |-> blocks, linked |-> linked,
                                   path |-> disk.path],
                       loaded |-> LoadRejected, activated |-> FALSE]
    /\ saves' = saves + 1
    /\ UNCHANGED <<ivars, ancestors, evars, xvars, cvars, rvars, tvars, svars,
                   linked>>

\* The header of the file at path as another build or host would have left it
ForeignHeader(data, kind) ==
    LET head == CASE kind = "magic_reversed" ->
                       BinaryHeader(<<222, 173, 190, 175>>, ReadU16(data, 4),
                                    ReadU16(data, 6), ReadU32(data, 8))
                  [] kind = "magic_other_endian" ->
                       BinaryHeader(SIEVE_BINARY_MAGIC_OTHER_ENDIAN,
                                    ReadU16(data, 4), ReadU16(data, 6),
                                    ReadU32(data, 8))
                  [] kind = "major" ->
                       BinaryHeader(SubSeq(data, 1, 4), 1, ReadU16(data, 6),
                                    ReadU32(data, 8))
                  [] kind = "minor" ->
                       BinaryHeader(SubSeq(data, 1, 4), ReadU16(data, 4), 1,
                                    ReadU32(data, 8))
    IN  head \o SubSeq(data, 13, Len(data))

ForeignFile ==
    /\ fop.op = "save"
    /\ fop.result
    /\ fop.origin = "none"
    /\ \E kind \in ForeignHeaders :
        /\ disk' = [disk EXCEPT !.path = FileOf(ForeignHeader(disk.path.data, kind))]
        /\ fop' = [fop EXCEPT !.op = "foreign", !.origin = kind]
    /\ UNCHANGED <<ivars, ancestors, evars, xvars, cvars, rvars, tvars, svars,
                   blocks, linked, saves>>

\* sieve_binary_open and sieve_binary_load of the file at path: the binary is
\* activated only after _sieve_binary_load succeeded
Load ==
    /\ fop.op \in {"save", "foreign"}
    /\ disk.path.exists
    /\ \E ld \in { sieve_binary_load_file(wordbits, disk.path.data) } :
        fop' = [fop EXCEPT !.op = "load", !.result = ld.ok, !.loaded = ld,
                           !.activated = ld.ok]
    /\ UNCHANGED <<ivars, ancestors, evars, xvars, cvars, rvars, tvars, svars,
                   blocks, linked, disk,
                   saves>>

NextFile ==
    \/ BlockCreate
    \/ BlockEmit
    \/ ExtensionLink
    \/ Save
    \/ ForeignFile
    \/ Load

SpecFile == InitFile /\ [][NextFile]_vars

(***************************************************************************)
(* The store action (part_000) in a result being built.  A mailbox name is *)
(* the sequence of its characters; NoContext is an action without context  *)
(* (act->context == NULL), which stands for the default mailbox.           *)
(***************************************************************************)
MaxAdds == 3  \* sieve_act_store_add_to_result calls on a result

INBOX == <<73, 78, 66, 79, 88>>
Mailboxes == { INBOX, <<105, 110, 98, 111, 120>>, <<73, 110, 98, 111, 120>>,
               <<65>>, <<97>> }
NoContext == <<0>>
Contexts == Mailboxes \cup {NoContext}
SideEffects == {"flags", "other"}
SideEffectLists ==
    { <<>>, <<"flags">>, <<"flags", "other">>, <<"other", "flags">> }

\* strcasecmp(a, b) == 0
tolower(c) == IF c \in 65..90 THEN c + 32 ELSE c
strcasecmp_equal(a, b) ==
    /\ Len(a) = Len(b)
    /\ \A i \in 1..Len(a) : tolower(a[i]) = tolower(b[i])

\* An equality that ignores the case of every mailbox name
equals_ignoring_case(default, ctx1, ctx2) ==
    strcasecmp_equal(IF ctx1 = NoContext THEN default ELSE ctx1,
                     IF ctx2 = NoContext THEN default ELSE ctx2)

\* act_store_equals
act_store_equals(default, ctx1, ctx2) ==
    IF ctx1 = NoContext /\ ctx2 = NoContext THEN TRUE
    ELSE LET mailbox1 == IF ctx1 = NoContext THEN default ELSE ctx1
             mailbox2 == IF ctx2 = NoContext THEN default ELSE ctx2
         IN  \/ mailbox1 = mailbox2
             \/ strcasecmp_equal(mailbox1, INBOX) /\ strcasecmp_equal(mailbox2, INBOX)

\* A check_duplicate that compares the mailbox names only
check_duplicate_strcmp(default, act, act_other) ==
    IF (IF act = NoContext THEN default ELSE act)
        = (IF act_other = NoContext THEN default ELSE act_other)
    THEN 1 ELSE 0

\* act_store_check_duplicate
act_store_check_duplicate(default, act, act_other) ==
    IF act_store_equals(default, act, act_other) THEN 1 ELSE 0

\* The side effects of an action after those of a duplicate were merged into
\* it: the list union, in insertion order
RECURSIVE MergeSideEffects(_, _)
MergeSideEffects(existing, new) ==
    IF new = <<>> THEN existing
    ELSE IF \E i \in 1..Len(existing) : existing[i] = Head(new)
    THEN MergeSideEffects(existing, Tail(new))
    ELSE MergeSideEffects(Append(existing, Head(new)), Tail(new))

\* Adding an action to the result: the existing actions from position i are
\* asked in order; a duplicate takes the side effects and the new action is
\* discarded, a conflict is a runtime error, otherwise the action is appended
RECURSIVE sieve_result_add_action(_, _, _, _, _)
sieve_result_add_action(default, list, i, context, seffects) ==
    IF i > Len(list)
    THEN [ret |-> 0, list |-> Append(list, [context |-> context,
                                            seffects |-> seffects])]
    ELSE IF act_store_check_duplicate(default, context, list[i].context) = 1
    THEN [ret |-> 1,
          list |-> [list EXCEPT ![i].seffects =
                        MergeSideEffects(list[i].seffects, seffects)]]
    ELSE IF act_store_check_duplicate(default, context, list[i].context) < 0
    THEN [ret |-> -1, list |-> list]
    ELSE sieve_result_add_action(default, list, i + 1, context, seffects)

(***************************************************************************)
(* SpecStores: store actions are added to an empty result.                 *)
(***************************************************************************)
InitStores ==
    /\ OthersIdle
    /\ InterpreterIdle
    /\ ExecuteIdle
    /\ wordbits = 32
    /\ code = <<>>
    /\ emitted = <<>>
    /\ cop = [op |-> "none"]
    /\ FileIdle
    /\ MatchIdle
    /\ StoreIdle
    /\ default_mailbox \in {INBOX, <<97>>}
    /\ stores = <<>>
    /\ adds = 0
    /\ aop = [op |-> "none"]

Added(kind, context, seffects, out) ==
    /\ stores' = out.list
    /\ adds' = adds + 1
    /\ aop' = [op |-> kind, context |-> context, seffects |-> seffects,
               ret |-> out.ret, before |-> stores]
    /\ UNCHANGED <<ivars, ancestors, evars, xvars, cvars, fvars, tvars, svars,
                   default_mailbox>>

\* sieve_act_store_add_to_result: a store action with a mailbox of its own
StoreAddToResult ==
    /\ adds < MaxAdds
    /\ \E mailbox \in Mailboxes, seffects \in SideEffectLists :
        \E out \in { sieve_result_add_action(default_mailbox, stores, 1,
                                             mailbox, seffects) } :
            Added("store", mailbox, seffects, out)

\* A store action without context (the keep action: the default mailbox)
StoreAddDefault ==
    /\ adds < MaxAdds
    /\ \E seffects \in SideEffectLists :
        \E out \in { sieve_result_add_action(default_mailbox, stores, 1,
                                             NoContext, seffects) } :
            Added("keep", NoContext, seffects, out)

NextStores ==
    \/ StoreAddToResult
    \/ StoreAddDefault

SpecStores == InitStores /\ [][NextStores]_vars

(***************************************************************************)
(* sieve-match-types.c and the :regex match type (part_002): a match       *)
(* session.  Values and keys are sequences of characters.                  *)
(***************************************************************************)
MaxKeys == 2     \* keys of a key list
MaxValues == 2   \* sieve_match_value calls of a session

\* "Test of general stupidity", "toptoptop", "TOP"
TestOfGeneralStupidity ==
    <<84, 101, 115, 116, 32, 111, 102, 32, 103, 101, 110, 101, 114, 97, 108,
      32, 115, 116, 117, 112, 105, 100, 105, 116, 121>>
TopTopTop == <<116, 111, 112, 116, 111, 112, 116, 111, 112>>
MatchedValues == { TestOfGeneralStupidity, TopTopTop, <<84, 79, 80>> }

\* "", "top", "stupid" and "toptoptoptop" for :contains and match types
\* without a hook
PlainKeys == { <<>>, <<116, 111, 112>>, <<115, 116, 117, 112, 105, 100>>,
              TopTopTop \o <<116, 111, 112>> }
\* "Test of *", "*top", "of *", "t?p*" for :matches
GlobKeys == { <<84, 101, 115, 116, 32, 111, 102, 32, 42>>, <<42, 116, 111, 112>>,
             <<111, 102, 32, 42>>, <<116, 63, 112, 42>> }
\* "top", "t(o)p", "(", "x" for :regex
RegexKeys == { <<116, 111, 112>>, <<116, 40, 111, 41, 112>>, <<40>>, <<120>> }

MatchTypes == {"contains", "matches", "regex", "custom"}
Comparators == {"i;octet", "i;ascii-casemap", "i;ascii-numeric"}
KeysOf(type) ==
    CASE type = "matches" -> GlobKeys
      [] type = "regex" -> RegexKeys
      [] OTHER -> PlainKeys
KeyLists(type) == UNION { [1..n -> KeysOf(type)] : n \in 0..MaxKeys }

\* comparator->char_match != NULL
HasCharMatch(cmp) == cmp \in {"i;octet", "i;ascii-casemap"}
\* comparator->char_match: the characters at *val and *key are equal under
\* the comparator (both pointers then advance by one)
char_match(cmp, a, b) ==
    IF cmp = "i;ascii-casemap" THEN tolower(a) = tolower(b) ELSE a = b

\* The loop of mtch_contains_match; vp and kp are offsets into val and key.
\* steps bounds the iterations: done is FALSE if the loop has not ended
\* within them.
RECURSIVE contains_loop(_, _, _, _, _, _)
contains_loop(cmp, val, key, vp, kp, steps) ==
    IF ~(vp < Len(val) /\ kp < Len(key))
    THEN [done |-> TRUE, ret |-> kp = Len(key)]
    ELSE IF steps = 0 THEN [done |-> FALSE, ret |-> FALSE]
    ELSE IF char_match(cmp, val[vp + 1], key[kp + 1])
    THEN contains_loop(cmp, val, key, vp + 1, kp + 1, steps - 1)
    ELSE contains_loop(cmp, val, key, vp - kp + 1, 0, steps - 1)

\* A :contains that only looks for the key at the start of the value
contains_at_start(cmp, val, key) ==
    IF ~HasCharMatch(cmp) THEN [done |-> TRUE, ret |-> FALSE]
    ELSE [done |-> TRUE,
          ret |-> /\ Len(key) <= Len(val)
                  /\ \A i \in 1..Len(key) : char_match(cmp, val[i], key[i])]

\* mtch_contains_match
mtch_contains_match(cmp, val, key) ==
    IF ~HasCharMatch(cmp) THEN [done |-> TRUE, ret |-> FALSE]
    ELSE contains_loop(cmp, val, key, 0, 0, (Len(val) + 1) * (Len(key) + 1))

\* mtch_matches_match
mtch_matches_match(cmp, val, key) == [done |-> TRUE, ret |-> FALSE]

\* ---- regcomp and regexec (POSIX), for patterns of ordinary characters with
\* at most one parenthesised group
Positions(key, c) == { i \in 1..Len(key) : key[i] = c }
\* regcomp(regexp, key, cflags) == 0
regcomp_ok(key) ==
    \/ Positions(key, 40) = {} /\ Positions(key, 41) = {}
    \/ /\ Cardinality(Positions(key, 40)) = 1
       /\ Cardinality(Positions(key, 41)) = 1
       /\ \A i \in Positions(key, 40), j \in Positions(key, 41) : i < j
IsParen(c) == c = 40 \/ c = 41
RegexLiteral(key) == SelectSeq(key, LAMBDA c : ~IsParen(c))
\* Where the pattern matches in val: offsets o with the literal at val[o+1..]
RegexMatchesAt(icase, key, val) ==
    LET lit == RegexLiteral(key) IN
    { o \in 0..(Len(val) - Len(lit)) :
        \A i \in 1..Len(lit) :
            IF icase THEN tolower(val[o + i]) = tolower(lit[i])
            ELSE val[o + i] = lit[i] }
\* regexec(regexp, val, nmatch, pmatch, 0): 0 and the substrings of pmatch
\* (the whole match, then the group if the pattern has one), or REG_NOMATCH
regexec(icase, key, val) ==
    LET at == RegexMatchesAt(icase, key, val) IN
    IF at = {} THEN [ret |-> 1, captures |-> <<>>]
    ELSE LET o == CHOOSE x \in at : \A y \in at : x <= y
             lit == RegexLiteral(key)
             whole == SubSeq(val, o + 1, o + Len(lit))
         IN  IF Positions(key, 40) = {}
             THEN [ret |-> 0, captures |-> <<whole>>]
             ELSE LET open == CHOOSE i \in Positions(key, 40) : TRUE
                      close == CHOOSE j \in Positions(key, 41) : TRUE
                  IN  [ret |-> 0,
                       captures |-> <<whole,
                                      SubSeq(val, o + open, o + close - 2)>>]

\* What regexec may do with a regex_t that regcomp never filled in (zeroed
\* by the array) or failed on: report no match, or a match with captures
\* that are not those of the key
UncompiledOutcomes ==
    { [ret |-> 1, captures |-> <<>>], [ret |-> 0, captures |-> <<<<63>>>>] }

\* ---- struct mcht_regex_context; reg_expressions is a Seq of slots
\* [state, key]: "zero" (cleared by the array), "compiled", "failed"
ZeroSlot == [state |-> "zero", key |-> <<>>]
\* mcht_regex_match_init
mcht_regex_match_init ==
    [value_index |-> -1, reg_expressions |-> <<>>, compiled |-> <<>>,
     regexecs |-> <<>>, freed |-> <<>>]

\* array_idx_modifiable: the array is extended with zeroed elements up to
\* the index
array_extend(arr, idx) ==
    [i \in 1..(IF idx + 1 > Len(arr) THEN idx + 1 ELSE Len(arr)) |->
        IF i <= Len(arr) THEN arr[i] ELSE ZeroSlot]
\* array_idx_clear
array_idx_clear(arr, idx) == [array_extend(arr, idx) EXCEPT ![idx + 1] = ZeroSlot]

\* mcht_regex_get: [ctx, regexp], regexp the index of the slot or -1 (NULL)
mcht_regex_get(ctx, cmp, key, key_index) ==
    IF ctx.value_index <= 0
    THEN IF cmp \notin {"i;octet", "i;ascii-casemap"}
         THEN [ctx |-> [ctx EXCEPT !.reg_expressions = array_idx_clear(@, key_index)],
               regexp |-> -1]
         ELSE IF ~regcomp_ok(key)
         THEN [ctx |-> [ctx EXCEPT !.reg_expressions =
                          [array_idx_clear(@, key_index) EXCEPT ![key_index + 1] =
                              [state |-> "failed", key |-> key]]],
               regexp |-> -1]
         ELSE [ctx |-> [ctx EXCEPT
                          !.reg_expressions =
                             [array_idx_clear(@, key_index) EXCEPT ![key_index + 1] =
                                 [state |-> "compiled", key |-> key]],
                          !.compiled = Append(@, key_index)],
               regexp |-> key_index]
    ELSE [ctx |-> [ctx EXCEPT !.reg_expressions = array_extend(@, key_index)],
          regexp |-> key_index]

\* ---- match values of the interpreter: sieve_match_values_start makes a
\* new list, _add appends to it, _commit replaces the interpreter's set.
\* The result is the sequence of sets the interpreter holds after each call.
match_values_replaced(current, captures) ==
    [i \in 1..(Len(captures) + 2) |->
        IF i = Len(captures) + 2 THEN captures ELSE current]

\* Match values that are added to the interpreter's set one by one
match_values_in_place(current, captures) ==
    [i \in 1..(Len(captures) + 2) |->
        IF i = 1 THEN <<>> ELSE SubSeq(captures, 1, i - 2)]

\* A mcht_regex_match that starts the new list of match values in the
\* interpreter's own set before regexec is called
mcht_regex_match_in_place(m, current, val, key, key_index, ub) ==
    LET counted == IF key_index = 0
                   THEN [m.data EXCEPT !.value_index = @ + 1] ELSE m.data
        got == mcht_regex_get(counted, m.cmp, key, key_index)
    IN  IF got.regexp < 0 THEN [ctx |-> got.ctx, ret |-> FALSE, sets |-> <<>>]
        ELSE LET slot == got.ctx.reg_expressions[key_index + 1]
                 exec == IF slot.state = "compiled"
                         THEN regexec(m.cmp = "i;ascii-casemap", slot.key, val)
                         ELSE ub
                 ran == [got.ctx EXCEPT !.regexecs =
                            Append(@, [key_index |-> key_index,
                                       state |-> slot.state])]
             IN  [ctx |-> ran, ret |-> exec.ret = 0,
                  sets |-> IF m.enabled
                           THEN match_values_in_place(current, exec.captures)
                           ELSE <<>>]

\* mcht_regex_match: [ctx, ret, sets]; sets are the match-value sets the
\* interpreter held during the call, ub is what regexec does on a regex_t
\* that holds no compiled automaton
mcht_regex_match(m, current, val, key, key_index, ub) ==
    LET counted == IF key_index = 0
                   THEN [m.data EXCEPT !.value_index = @ + 1] ELSE m.data
        got == mcht_regex_get(counted, m.cmp, key, key_index)
    IN  IF got.regexp < 0 THEN [ctx |-> got.ctx, ret |-> FALSE, sets |-> <<>>]
        ELSE LET slot == got.ctx.reg_expressions[key_index + 1]
                 exec == IF slot.state = "compiled"
                         THEN regexec(m.cmp = "i;ascii-casemap", slot.key, val)
                         ELSE ub
                 ran == [got.ctx EXCEPT !.regexecs =
                            Append(@, [key_index |-> key_index,
                                       state |-> slot.state])]
             IN  IF exec.ret # 0 THEN [ctx |-> ran, ret |-> FALSE, sets |-> <<>>]
                 ELSE [ctx |-> ran, ret |-> TRUE,
                       sets |-> IF m.enabled
                                THEN match_values_replaced(current, exec.captures)
                                ELSE <<>>]

\* mcht_regex_match_deinit: regfree of every element of the array
mcht_regex_match_deinit(ctx) ==
    [ctx EXCEPT !.freed = [i \in 1..Len(ctx.reg_expressions) |->
                              ctx.reg_expressions[i].state]]

\* mtch->match of the session's match type: [ctx, ret, sets, done]
match_hook(m, current, val, key, key_index, ub) ==
    CASE m.type = "contains" ->
            [ctx |-> m.data, sets |-> <<>>,
             ret |-> mtch_contains_match(m.cmp, val, key).ret,
             done |-> mtch_contains_match(m.cmp, val, key).done]
      [] m.type = "matches" ->
            [ctx |-> m.data, sets |-> <<>>,
             ret |-> mtch_matches_match(m.cmp, val, key).ret, done |-> TRUE]
      [] m.type = "regex" ->
            [ctx |-> mcht_regex_match(m, current, val, key, key_index, ub).ctx,
             sets |-> mcht_regex_match(m, current, val, key, key_index, ub).sets,
             ret |-> mcht_regex_match(m, current, val, key, key_index, ub).ret,
             done |-> TRUE]

\* A sieve_match_value that asks every key
RECURSIVE match_every_key(_, _, _, _, _, _)
match_every_key(m, current, value, key_index, calls, ub) ==
    IF key_index >= Len(m.keys)
    THEN [mctx |-> m, mvalues |-> current, calls |-> calls,
          ret |-> \E i \in 1..Len(calls) : calls[i].ret]
    ELSE LET h == match_hook(m, current, value, m.keys[key_index + 1],
                             key_index, ub)
         IN  match_every_key([m EXCEPT !.data = h.ctx],
                 IF h.sets = <<>> THEN current ELSE h.sets[Len(h.sets)],
                 value, key_index + 1,
                 Append(calls, [key_index |-> key_index, ret |-> h.ret,
                                done |-> h.done, sets |-> h.sets]), ub)

\* The loop of sieve_match_value from key key_index on: [mctx, mvalues, ret,
\* calls], calls being the hook invocations made
RECURSIVE sieve_match_keys(_, _, _, _, _, _)
sieve_match_keys(m, current, value, key_index, calls, ub) ==
    IF key_index >= Len(m.keys)
    THEN [mctx |-> m, mvalues |-> current, calls |-> calls, ret |-> FALSE]
    ELSE LET h == match_hook(m, current, value, m.keys[key_index + 1],
                             key_index, ub)
             called == Append(calls, [key_index |-> key_index, ret |-> h.ret,
                                      done |-> h.done, sets |-> h.sets])
             held == IF h.sets = <<>> THEN current ELSE h.sets[Len(h.sets)]
         IN  IF h.ret
             THEN [mctx |-> [m EXCEPT !.data = h.ctx], mvalues |-> held,
                   calls |-> called, ret |-> TRUE]
             ELSE sieve_match_keys([m EXCEPT !.data = h.ctx], held, value,
                                   key_index + 1, called, ub)

\* sieve_match_value
sieve_match_value(m, current, value, ub) ==
    IF m.type = "custom"
    THEN [mctx |-> m, mvalues |-> current, calls |-> <<>>, ret |-> FALSE]
    ELSE sieve_match_keys(m, current, value, 0, <<>>, ub)

(***************************************************************************)
(* SpecMatch: a test begins a match session, matches values, ends it.      *)
(***************************************************************************)
\* The match values an earlier test left: ${0} = "p"
PreviousValues == <<<<112>>>>

InitMatch ==
    /\ OthersIdle
    /\ InterpreterIdle
    /\ ExecuteIdle
    /\ wordbits = 32
    /\ code = <<>>
    /\ emitted = <<>>
    /\ cop = [op |-> "none"]
    /\ FileIdle
    /\ StoresIdle
    /\ StoreIdle
    /\ MatchIdle

\* sieve_match_begin, with the match type's match_init
MatchBegin ==
    /\ mop.op = "none"
    /\ \E type \in MatchTypes, cmp \in Comparators, enabled \in BOOLEAN :
        /\ enabled => type = "regex"
        /\ type = "custom" => cmp = "i;octet"
        /\ \E keys \in KeyLists(type) :
            mctx' = [type |-> type, cmp |-> cmp, keys |-> keys,
                     enabled |-> enabled, values |-> 0,
                     data |-> mcht_regex_match_init]
    /\ mvalues' = PreviousValues
    /\ mop' = [op |-> "begin", value |-> <<>>, ret |-> FALSE, calls |-> <<>>,
               before |-> PreviousValues]
    /\ UNCHANGED <<ivars, ancestors, evars, xvars, cvars, fvars, rvars, svars>>

\* sieve_match_value
MatchValue ==
    /\ mop.op \in {"begin", "value"}
    /\ mctx.values < MaxValues
    /\ \E value \in MatchedValues, ub \in UncompiledOutcomes :
        \E out \in { sieve_match_value(mctx, mvalues, value, ub) } :
            /\ mctx' = [out.mctx EXCEPT !.values = @ + 1]
            /\ mvalues' = out.mvalues
            /\ mop' = [op |-> "value", value |-> value, ret |-> out.ret,
                       calls |-> out.calls, before |-> mvalues]
    /\ UNCHANGED <<ivars, ancestors, evars, xvars, cvars, fvars, rvars, svars>>

\* sieve_match_end, with the match type's match_deinit
MatchEnd ==
    /\ mop.op \in {"begin", "value"}
    /\ mctx' = IF mctx.type = "regex"
               THEN [mctx EXCEPT !.data = mcht_regex_match_deinit(@)]
               ELSE mctx
    /\ mop' = [op |-> "end", value |-> <<>>, ret |-> FALSE, calls |-> <<>>,
               before |-> mvalues]
    /\ UNCHANGED <<ivars, ancestors, evars, xvars, cvars, fvars, rvars, svars, mvalues>>

NextMatch ==
    \/ MatchBegin
    \/ MatchValue
    \/ MatchEnd

SpecMatch == InitMatch /\ [][NextMatch]_vars

(***************************************************************************)
(* The store action (part_000): start, side effects, execute, commit or    *)
(* rollback of one action against the mail storage.                        *)
(***************************************************************************)
MaxAddFlags == 1   \* sieve_act_store_add_flags calls between start and execute

\* enum mail_error, as far as the action tells its values apart
MailErrors == {"MAIL_ERROR_NOTFOUND", "MAIL_ERROR_TEMP"}
MailFlags == {"\\Seen", "\\Flagged"}
\* Keywords a side effect may hand over; mailbox_keyword_is_valid accepts
\* the first
Keywords == {"$label1", "bad keyword"}
mailbox_keyword_is_valid(kw) == kw = "$label1"
KeywordLists == { <<>>, <<"$label1">>, <<"bad keyword", "$label1">> }

\* What the mail storage does when asked: mail_namespace_find finds a
\* namespace (again for INBOX when the name is a namespace prefix), the
\* outcome of the first mailbox_open, of mailbox_create, of the second
\* mailbox_open and mailbox_sync, and the last error of the storage after
\* a failed create or reopen
OpenEnvs ==
    [found : BOOLEAN, prefix : BOOLEAN, found_inbox : BOOLEAN,
     open : {"ok"} \cup MailErrors, autocreate : BOOLEAN,
     create : BOOLEAN, reopen : BOOLEAN, last_error : MailErrors]

\* act_store_mailbox_open: [box, ns, mailbox, allocs, closes, last_error];
\* box and ns say whether the pointer is non-NULL, allocs and closes count
\* mailbox_alloc and mailbox_close
act_store_mailbox_open(mailbox, env) ==
    LET none == [box |-> FALSE, ns |-> FALSE, mailbox |-> mailbox, allocs |-> 0,
                 closes |-> 0, last_error |-> "MAIL_ERROR_NONE"]
        name == IF env.prefix THEN INBOX ELSE mailbox
        failed(err) == [box |-> FALSE, ns |-> TRUE, mailbox |-> name,
                        allocs |-> 1, closes |-> 1, last_error |-> err]
        opened == [box |-> TRUE, ns |-> TRUE, mailbox |-> name, allocs |-> 1,
                   closes |-> 0, last_error |-> "MAIL_ERROR_NONE"]
    IN  IF ~env.found THEN none
        ELSE IF env.prefix /\ ~env.found_inbox THEN [none EXCEPT !.mailbox = INBOX]
        ELSE IF env.open = "ok" THEN opened
        ELSE IF ~env.autocreate \/ env.open # "MAIL_ERROR_NOTFOUND"
        THEN failed(env.open)
        ELSE IF ~env.create THEN failed(env.last_error)
        ELSE IF ~env.reopen THEN failed(env.last_error)
        ELSE opened

\* The state of the mail storage and of exec_status before the action
\* starts; namespaces, opened and same_backend note what the host and the
\* storage answered at start
NoStorage ==
    [allocs |-> 0, closes |-> 0, begun |-> 0, committed |-> 0, rolled |-> 0,
     copies |-> 0, saved |-> <<>>,
     mail |-> [flags |-> {"\\Seen"}, keywords |-> <<"$old">>, updates |-> 0],
     supplied |-> [flags |-> {}, keywords |-> <<>>], add_flags |-> 0,
     log |-> <<>>, keep |-> TRUE, message_saved |-> FALSE,
     keep_original |-> FALSE, tried_default_save |-> FALSE,
     namespaces |-> TRUE, opened |-> FALSE, same_backend |-> FALSE]

\* act_store_start: [trans, storage, ret]
act_store_start(ctx, st, namespaces, env, backends_equal) ==
    LET mailbox == IF ctx = NoContext THEN INBOX ELSE ctx
        o == IF namespaces THEN act_store_mailbox_open(mailbox, env)
             ELSE [box |-> FALSE, ns |-> FALSE, mailbox |-> mailbox,
                   allocs |-> 0, closes |-> 0, last_error |-> "MAIL_ERROR_NONE"]
        redundant == namespaces /\ o.box /\ backends_equal
        box == o.box /\ ~redundant
        ns == o.ns /\ ~redundant
        error_code == IF ns /\ ~box THEN o.last_error ELSE "MAIL_ERROR_NONE"
    IN  [trans |-> [mailbox |-> o.mailbox, ns |-> ns, box |-> box, flags |-> {},
                    flags_altered |-> FALSE, keywords |-> <<>>,
                    disabled |-> ~namespaces, redundant |-> redundant,
                    mail_trans |-> FALSE, dest_mail |-> FALSE,
                    error_code |-> error_code],
         storage |-> [st EXCEPT !.allocs = @ + o.allocs,
                                !.closes = @ + o.closes
                                           + (IF redundant THEN 1 ELSE 0)],
         ret |-> box \/ error_code = "MAIL_ERROR_NOTFOUND" \/ ~namespaces
                     \/ redundant]

\* sieve_act_store_add_flags
sieve_act_store_add_flags(tr, keywords, flags) ==
    [tr EXCEPT !.keywords = IF tr.box
                            THEN @ \o SelectSeq(keywords, mailbox_keyword_is_valid)
                            ELSE @,
               !.flags = @ \cup flags,
               !.flags_altered = TRUE]

\* act_store_execute: [trans, storage, ret]
act_store_execute(tr, st, default, copy_ok) ==
    IF tr = <<>> THEN [trans |-> tr, storage |-> st, ret |-> FALSE]
    ELSE IF tr.disabled THEN [trans |-> tr, storage |-> st, ret |-> TRUE]
    ELSE IF tr.redundant
    THEN [trans |-> tr, ret |-> TRUE,
          storage |->
            IF ~tr.flags_altered THEN st
            ELSE [st EXCEPT !.mail =
                    [flags |-> tr.flags,
                     keywords |-> IF tr.keywords # <<>> THEN tr.keywords
                                  ELSE @.keywords,
                     updates |-> @.updates + 1]]]
    ELSE IF ~tr.ns \/ ~tr.box THEN [trans |-> tr, storage |-> st, ret |-> FALSE]
    ELSE [trans |-> [tr EXCEPT !.mail_trans = TRUE, !.dest_mail = TRUE,
                               !.error_code = IF copy_ok THEN @
                                              ELSE "MAIL_ERROR_TEMP"],
          storage |-> [st EXCEPT
                         !.tried_default_save = @ \/ tr.mailbox = default,
                         !.begun = @ + 1,
                         !.copies = @ + 1,
                         !.saved = IF ~copy_ok THEN @
                                   ELSE IF tr.flags_altered
                                   THEN <<[flags |-> tr.flags,
                                           keywords |-> tr.keywords]>>
                                   ELSE <<[flags |-> {}, keywords |-> <<>>]>>],
          ret |-> copy_ok]

\* An act_store_log_status that does not know of disabled and redundant
\* stores
log_status_of_copy(tr, rolled_back, stored) ==
    IF ~stored THEN "failed to store into mailbox"
    ELSE IF rolled_back THEN "store into mailbox aborted"
    ELSE "stored mail into mailbox"

\* act_store_log_status: the message logged
act_store_log_status(tr, rolled_back, stored) ==
    IF tr.disabled THEN "store into mailbox skipped"
    ELSE IF tr.redundant THEN "left message in mailbox"
    ELSE IF ~tr.ns THEN "failed to find namespace for mailbox"
    ELSE IF ~stored THEN "failed to store into mailbox"
    ELSE IF rolled_back THEN "store into mailbox aborted"
    ELSE "stored mail into mailbox"

\* An act_store_commit that notes the message as saved whatever
\* mailbox_transaction_commit returned
commit_saved_unchecked(tr, st, commit_ok) ==
    IF tr = <<>> THEN [trans |-> tr, storage |-> st, ret |-> FALSE]
    ELSE IF tr.disabled
    THEN [trans |-> tr, ret |-> TRUE,
          storage |-> [st EXCEPT
                         !.log = Append(@, act_store_log_status(tr, FALSE, TRUE)),
                         !.keep = FALSE]]
    ELSE IF tr.redundant
    THEN [trans |-> tr, ret |-> TRUE,
          storage |-> [st EXCEPT
                         !.log = Append(@, act_store_log_status(tr, FALSE, TRUE)),
                         !.keep_original = TRUE,
                         !.message_saved = TRUE]]
    ELSE IF ~tr.ns \/ ~tr.box THEN [trans |-> tr, storage |-> st, ret |-> FALSE]
    ELSE [trans |-> [tr EXCEPT !.dest_mail = FALSE, !.mail_trans = FALSE,
                               !.box = FALSE],
          storage |-> [st EXCEPT
                         !.committed = @ + 1,
                         !.message_saved = TRUE,
                         !.log = Append(@, act_store_log_status(tr, FALSE,
                                                                commit_ok)),
                         !.keep = ~commit_ok,
                         !.closes = @ + 1],
          ret |-> commit_ok]

\* act_store_commit: [trans, storage, ret]
act_store_commit(tr, st, commit_ok) ==
    IF tr = <<>> THEN [trans |-> tr, storage |-> st, ret |-> FALSE]
    ELSE IF tr.disabled
    THEN [trans |-> tr, ret |-> TRUE,
          storage |-> [st EXCEPT
                         !.log = Append(@, act_store_log_status(tr, FALSE, TRUE)),
                         !.keep = FALSE]]
    ELSE IF tr.redundant
    THEN [trans |-> tr, ret |-> TRUE,
          storage |-> [st EXCEPT
                         !.log = Append(@, act_store_log_status(tr, FALSE, TRUE)),
                         !.keep_original = TRUE,
                         !.message_saved = TRUE]]
    ELSE IF ~tr.ns \/ ~tr.box THEN [trans |-> tr, storage |-> st, ret |-> FALSE]
    ELSE [trans |-> [tr EXCEPT !.dest_mail = FALSE, !.mail_trans = FALSE,
                               !.box = FALSE],
          storage |-> [st EXCEPT
                         !.committed = @ + 1,
                         !.message_saved = @ \/ commit_ok,
                         !.log = Append(@, act_store_log_status(tr, FALSE,
                                                                commit_ok)),
                         !.keep = ~commit_ok,
                         !.closes = @ + 1],
          ret |-> commit_ok]

\* An act_store_rollback that leaves the mailbox to its owner
rollback_without_close(tr, st, success) ==
    [trans |-> [tr EXCEPT !.dest_mail = FALSE, !.mail_trans = FALSE],
     storage |-> [st EXCEPT
                    !.log = Append(@, act_store_log_status(tr, TRUE, success)),
                    !.rolled = @ + (IF tr.mail_trans THEN 1 ELSE 0)],
     ret |-> TRUE]

\* act_store_rollback: [trans, storage, ret] (ret has no meaning: void)
act_store_rollback(tr, st, success) ==
    [trans |-> [tr EXCEPT !.dest_mail = FALSE, !.mail_trans = FALSE,
                          !.box = FALSE],
     storage |-> [st EXCEPT
                    !.log = Append(@, act_store_log_status(tr, TRUE, success)),
                    !.rolled = @ + (IF tr.mail_trans THEN 1 ELSE 0),
                    !.closes = @ + (IF tr.box THEN 1 ELSE 0)],
     ret |-> TRUE]

(***************************************************************************)
(* SpecStore: the result runs one store action through its hooks.          *)
(***************************************************************************)
InitStore ==
    /\ OthersIdle
    /\ InterpreterIdle
    /\ ExecuteIdle
    /\ wordbits = 32
    /\ code = <<>>
    /\ emitted = <<>>
    /\ cop = [op |-> "none"]
    /\ FileIdle
    /\ StoresIdle
    /\ MatchIdle
    /\ StoreIdle

StoreContexts == {NoContext, INBOX, <<65>>}

\* act_store.start
StoreStart ==
    /\ sop.op = "none"
    /\ \E ctx \in StoreContexts, namespaces \in BOOLEAN, env \in OpenEnvs,
          backends_equal \in BOOLEAN :
        \E out \in { act_store_start(ctx, NoStorage, namespaces, env,
                                     backends_equal) } :
            /\ trans' = out.trans
            /\ storage' = [out.storage EXCEPT
                             !.namespaces = namespaces,
                             !.opened = out.trans.box \/ out.trans.redundant,
                             !.same_backend = backends_equal]
            /\ sop' = [op |-> "start", ret |-> out.ret]
    /\ UNCHANGED <<ivars, ancestors, evars, xvars, cvars, fvars, rvars, tvars>>

\* A side effect's pre_execute calls sieve_act_store_add_flags
StoreAddFlags ==
    /\ sop.op \in {"start", "add_flags"}
    /\ sop.ret
    /\ storage.add_flags < MaxAddFlags
    /\ \E keywords \in KeywordLists, flags \in SUBSET MailFlags :
        /\ trans' = sieve_act_store_add_flags(trans, keywords, flags)
        /\ storage' = [storage EXCEPT
                         !.add_flags = @ + 1,
                         !.supplied =
                            [flags |-> @.flags \cup flags,
                             keywords |-> @.keywords
                                \o SelectSeq(keywords, mailbox_keyword_is_valid)]]
    /\ sop' = [op |-> "add_flags", ret |-> TRUE]
    /\ UNCHANGED <<ivars, ancestors, evars, xvars, cvars, fvars, rvars, tvars>>

\* act_store.execute, for an action that started
StoreExecute ==
    /\ sop.op \in {"start", "add_flags"}
    /\ sop.ret
    /\ \E copy_ok \in BOOLEAN :
        \E out \in { act_store_execute(trans, storage, INBOX, copy_ok) } :
            /\ trans' = out.trans
            /\ storage' = out.storage
            /\ sop' = [op |-> "execute", ret |-> out.ret]
    /\ UNCHANGED <<ivars, ancestors, evars, xvars, cvars, fvars, rvars, tvars>>

\* act_store.commit, for an action whose execute succeeded
StoreCommit ==
    /\ sop.op = "execute"
    /\ sop.ret
    /\ \E commit_ok \in BOOLEAN :
        \E out \in { act_store_commit(trans, storage, commit_ok) } :
            /\ trans' = out.trans
            /\ storage' = out.storage
            /\ sop' = [op |-> "commit", ret |-> out.ret]
    /\ UNCHANGED <<ivars, ancestors, evars, xvars, cvars, fvars, rvars, tvars>>

\* act_store.rollback, for an action that was started: its own start or
\* execute failed, or the result failed elsewhere
StoreRollback ==
    /\ sop.op \in {"start", "add_flags", "execute"}
    /\ \E success \in BOOLEAN :
        \E out \in { act_store_rollback(trans, storage, success) } :
            /\ trans' = out.trans
            /\ storage' = out.storage
            /\ sop' = [op |-> "rollback", ret |-> success]
    /\ UNCHANGED <<ivars, ancestors, evars, xvars, cvars, fvars, rvars, tvars>>

NextStore ==
    \/ StoreStart
    \/ StoreAddFlags
    \/ StoreExecute
    \/ StoreCommit
    \/ StoreRollback

SpecStore == InitStore /\ [][NextStore]_vars

(***************************************************************************)
(* Properties of saving and loading (SpecFile)                             *)
(***************************************************************************)
\* The file at path was written by a save of the binary whose every step
\* succeeded, and has been loaded
LoadedSaved == fop.op = "load" /\ fop.origin = "none"

\* The loaded binary has the blocks bs and the linked extensions exts
LoadedEquals(bs, exts) ==
    /\ fop.result
    /\ Len(fop.loaded.blocks) = Len(bs)
    /\ \A i \in 1..Len(bs) :
        /\ fop.loaded.blocks[i].data = bs[i].data
        /\ fop.loaded.blocks[i].ext_index = bs[i].ext_index
    /\ fop.loaded.linked = exts

\* C13 as stated: loading the file written by sieve_binary_save(B) yields a
\* binary with the same number of blocks as the generated binary B, the same
\* bytes in every block, the same order of linked extensions and the same
\* extension index for every block.
C13_LoadEqualsGenerated ==
    LoadedSaved => LoadedEquals(fop.before.blocks, fop.before.linked)

\* C13 corrected: the loaded binary has the same number of blocks as the
\* generated binary B, the same bytes in every block but the extensions block
\* (block 0), the same order of linked extensions and the same extension index
\* for every block; its block 0 is that of B followed by the list of linked
\* extensions that sieve_binary_save emitted to it, which is block 0 of B
\* after the save.
C13_LoadEqualsSaved ==
    LoadedSaved =>
        /\ LoadedEquals(blocks, linked)
        /\ linked = fop.before.linked
        /\ Len(blocks) = Len(fop.before.blocks)
        /\ \A i \in 2..Len(blocks) : blocks[i] = fop.before.blocks[i]
        /\ blocks[1].data = fop.before.blocks[1].data
                                \o EmitExtensions(wordbits, linked)
        /\ blocks[1].ext_index = fop.before.blocks[1].ext_index

C13_Witness ==
    /\ LoadedSaved
    /\ fop.result
    /\ Len(fop.loaded.blocks) = 3
    /\ fop.loaded.blocks[2].data = <<1, 2, 3, 4, 5>>
    /\ fop.loaded.blocks[3].data = <<7>>
    /\ fop.loaded.linked = <<2, 0>>

\* C18: a load succeeds only if the magic of the file is the native magic and
\* both version fields are the current version; when the magic is byte
\* reversed or a version field differs, the load fails, no index record, block
\* or extension list was interpreted, and the binary is not activated.
C18_HeaderChecked ==
    fop.op = "load" =>
        /\ fop.result =>
            /\ SubSeq(disk.path.data, 1, 4) = SIEVE_BINARY_MAGIC
            /\ ReadU16(disk.path.data, 4) = SIEVE_BINARY_VERSION_MAJOR
            /\ ReadU16(disk.path.data, 6) = SIEVE_BINARY_VERSION_MINOR
        /\ fop.origin \in ForeignHeaders =>
            /\ ~fop.result
            /\ fop.loaded = LoadRejected
            /\ ~fop.activated
        /\ fop.activated => fop.result

C18_Witness ==
    /\ fop.op = "load"
    /\ fop.origin = "minor"
    /\ ~fop.result
    /\ Len(blocks) = 3
    /\ Len(linked) = 2

\* C19: sieve_binary_save returns success only if every step succeeded, and
\* then the file at path is the complete image of the binary; when a write
\* step or the rename fails it returns failure, path.tmp does not remain and
\* the file at path is the one that was there before.
C19_SaveAtomic ==
    fop.op = "save" =>
        /\ fop.origin \notin {"none", "open"} => ~fop.result
        /\ fop.result => disk.path = FileOf(sieve_binary_save_image(blocks, TRUE))
        /\ ~fop.result =>
            /\ ~disk.tmp.exists
            /\ disk.path = fop.before.path

(***************************************************************************)
(* Properties of store actions in a result (SpecStores)                    *)
(***************************************************************************)
SetOf(list) == { list[i] : i \in 1..Len(list) }
\* The actions of the result before the latest addition that equal the added
EqualBefore ==
    { i \in 1..Len(aop.before) :
        act_store_equals(default_mailbox, aop.context, aop.before[i].context) }

\* C20: when a store action is added that equals an action of the result, the
\* result keeps its entries, the new one is not appended, and the side effects
\* of the equal entry become the set union of its own and the new action's; no
\* two entries of a result are ever equal; check_duplicate returns 1 exactly
\* when equals is true, 0 otherwise, and never a conflict.
C20_DuplicateMerged ==
    /\ \A i, j \in 1..Len(stores) :
        /\ act_store_check_duplicate(default_mailbox, stores[i].context,
                                     stores[j].context) \in {0, 1}
        /\ i # j => ~act_store_equals(default_mailbox, stores[i].context,
                                      stores[j].context)
    /\ aop.op # "none" =>
        /\ aop.ret >= 0
        /\ aop.ret = 1 <=> EqualBefore # {}
        /\ \A i \in 1..Len(aop.before) :
            act_store_check_duplicate(default_mailbox, aop.context,
                                      aop.before[i].context)
                = IF i \in EqualBefore THEN 1 ELSE 0
        /\ EqualBefore # {} =>
            /\ Len(stores) = Len(aop.before)
            /\ \A i \in 1..Len(stores) :
                /\ stores[i].context = aop.before[i].context
                /\ SetOf(stores[i].seffects) =
                      IF i \in EqualBefore
                      THEN SetOf(aop.before[i].seffects) \cup SetOf(aop.seffects)
                      ELSE SetOf(aop.before[i].seffects)
        /\ EqualBefore = {} =>
            stores = Append(aop.before, [context |-> aop.context,
                                         seffects |-> aop.seffects])

C20_Witness ==
    /\ aop.op = "store"
    /\ aop.ret = 1
    /\ aop.context = <<73, 110, 98, 111, 120>>
    /\ aop.seffects = <<"other", "flags">>
    /\ Len(stores) = 2
    /\ stores[2].context = INBOX
    /\ stores[2].seffects = <<"flags", "other">>
    /\ aop.before[2].seffects = <<"flags">>

\* The mailbox an action delivers to, and that name in upper case
TargetMailbox(ctx) == IF ctx = NoContext THEN default_mailbox ELSE ctx
UpperCase(name) ==
    [i \in 1..Len(name) |-> IF name[i] \in 97..122 THEN name[i] - 32 ELSE name[i]]
StoreEquals(a, b) == act_store_equals(default_mailbox, a, b)

\* C21: act_store_equals(a, b) is true exactly when the two target mailbox
\* names (the default mailbox for an action without context) are identical
\* or are both INBOX in any letter case; it is reflexive, symmetric and
\* transitive; two names that differ only in case and are not INBOX are not
\* equal, and so stay two entries of a result.
\* (The relation depends on the default mailbox only, which no action
\* changes: it is examined where the result is still empty.)
C21_EqualsIsEquivalence ==
    /\ adds = 0 => \A a, b \in Contexts :
        /\ StoreEquals(a, b) <=>
              \/ TargetMailbox(a) = TargetMailbox(b)
              \/ UpperCase(TargetMailbox(a)) = INBOX
                    /\ UpperCase(TargetMailbox(b)) = INBOX
        /\ StoreEquals(a, a)
        /\ StoreEquals(a, b) => StoreEquals(b, a)
        /\ \A c \in Contexts :
            StoreEquals(a, b) /\ StoreEquals(b, c) => StoreEquals(a, c)
        /\ (/\ TargetMailbox(a) # TargetMailbox(b)
            /\ UpperCase(TargetMailbox(a)) = UpperCase(TargetMailbox(b))
            /\ UpperCase(TargetMailbox(a)) # INBOX) => ~StoreEquals(a, b)
    /\ aop.op # "none" =>
        (aop.ret = 1 <=>
            \E i \in 1..Len(aop.before) :
                \/ TargetMailbox(aop.before[i].context) = TargetMailbox(aop.context)
                \/ UpperCase(TargetMailbox(aop.before[i].context)) = INBOX
                      /\ UpperCase(TargetMailbox(aop.context)) = INBOX)

C21_Witness ==
    /\ Len(stores) = 3
    /\ stores[1].context = <<97>>
    /\ stores[2].context = <<65>>
    /\ stores[3].context = NoContext
    /\ default_mailbox = INBOX
    /\ adds = 3
    /\ aop.ret = 0

(***************************************************************************)
(* sieve_execute on a corrupt binary (SpecExecute)                         *)
(***************************************************************************)
\* C30: once sieve_run has returned BIN_CORRUPT, sieve_execute attempts no
\* implicit keep, invokes no hook of any action, goes straight to its cleanup
\* and returns BIN_CORRUPT with *keep false.
C30_CorruptLeftToCaller ==
    (epc # "run" /\ run_status = SIEVE_EXEC_BIN_CORRUPT) =>
        /\ epc \in {"cleanup", "done"}
        /\ keeps = <<>>
        /\ \A i \in 1..Len(actions) : actions[i].hooks = <<>>
        /\ status = SIEVE_EXEC_BIN_CORRUPT
        /\ ~keep

C30_Witness ==
    /\ epc = "done"
    /\ run_status = SIEVE_EXEC_BIN_CORRUPT
    /\ status = SIEVE_EXEC_BIN_CORRUPT
    /\ Len(actions) = 2
    /\ actions[1].deliver

(***************************************************************************)
(* Properties of a match session (SpecMatch)                               *)
(***************************************************************************)
\* key occurs in val as a contiguous run of characters equal under cmp
Substring(cmp, val, key) ==
    \E o \in 0..(Len(val) - Len(key)) :
        \A i \in 1..Len(key) : char_match(cmp, val[o + i], key[i])

\* C26: every :contains match ends, and with a comparator that has a
\* character match it says yes exactly when the key is a contiguous
\* substring of the value under that character equality: the empty key
\* matches every value, a key longer than the value never matches.
C26_ContainsIsSubstring ==
    (mop.op = "value" /\ mctx.type = "contains") =>
        \A i \in 1..Len(mop.calls) :
            LET key == mctx.keys[mop.calls[i].key_index + 1] IN
            /\ mop.calls[i].done
            /\ HasCharMatch(mctx.cmp) =>
                  /\ mop.calls[i].ret <=> Substring(mctx.cmp, mop.value, key)
                  /\ key = <<>> => mop.calls[i].ret
            /\ ~HasCharMatch(mctx.cmp) => ~mop.calls[i].ret
            /\ Len(key) > Len(mop.value) => ~mop.calls[i].ret

\* "stupid" is not in "TOP", "top" is under i;ascii-casemap
C26_Witness ==
    /\ mop.op = "value"
    /\ mctx.type = "contains"
    /\ mctx.cmp = "i;ascii-casemap"
    /\ mop.value = <<84, 79, 80>>
    /\ mctx.keys = << <<115, 116, 117, 112, 105, 100>>, <<116, 111, 112>> >>
    /\ Len(mop.calls) = 2
    /\ ~mop.calls[1].ret
    /\ mop.calls[2].ret

\* C27: sieve_match_value asks the keys in list order from the first key
\* on every call, says yes at the first key whose hook says yes and asks no
\* later key, and says no exactly when no key matches or the match type has
\* no match hook.
C27_FirstMatchingKey ==
    mop.op = "value" =>
        /\ \A i \in 1..Len(mop.calls) : mop.calls[i].key_index = i - 1
        /\ \A i \in 1..(Len(mop.calls) - 1) : ~mop.calls[i].ret
        /\ mop.ret <=> (mop.calls # <<>> /\ mop.calls[Len(mop.calls)].ret)
        /\ (~mop.ret /\ mctx.type # "custom") => Len(mop.calls) = Len(mctx.keys)
        /\ mctx.type = "custom" => (mop.calls = <<>> /\ ~mop.ret)
        /\ mctx.type = "contains" =>
              (mop.ret <=> \E k \in 1..Len(mctx.keys) :
                  mtch_contains_match(mctx.cmp, mop.value, mctx.keys[k]).ret)

\* The second value of a session matches its first key: the second key is
\* not asked
C27_Witness ==
    /\ mop.op = "value"
    /\ mctx.type = "contains"
    /\ mctx.values = 2
    /\ mctx.keys = << <<116, 111, 112>>, <<115, 116, 117, 112, 105, 100>> >>
    /\ mop.value = TopTopTop
    /\ mop.ret
    /\ Len(mop.calls) = 1

\* The glob of the Sieve :matches match type, anchored at both ends: val
\* from offset i on matches key from offset j on; '*' (42) stands for any
\* sequence of characters, '?' (63) for one character
RECURSIVE GlobMatches(_, _, _, _, _)
GlobMatches(cmp, val, key, i, j) ==
    IF j = Len(key) THEN i = Len(val)
    ELSE IF key[j + 1] = 42
    THEN \/ GlobMatches(cmp, val, key, i, j + 1)
         \/ i < Len(val) /\ GlobMatches(cmp, val, key, i + 1, j)
    ELSE /\ i < Len(val)
         /\ key[j + 1] = 63 \/ char_match(cmp, val[i + 1], key[j + 1])
         /\ GlobMatches(cmp, val, key, i + 1, j + 1)

\* C25: the :matches match says yes exactly when the whole value matches
\* the glob key; "Test of general stupidity" matches "Test of *",
\* "toptoptop" matches "*top", "Test of general stupidity" does not match
\* "of *".
C25_MatchesIsGlob ==
    (mop.op = "value" /\ mctx.type = "matches" /\ HasCharMatch(mctx.cmp)) =>
        \A i \in 1..Len(mop.calls) :
            mop.calls[i].ret <=>
                GlobMatches(mctx.cmp, mop.value,
                            mctx.keys[mop.calls[i].key_index + 1], 0, 0)

\* The hook call of the latest sieve_match_value that said yes, if any
MatchingCall == mop.calls[Len(mop.calls)]
RanCompiled ==
    /\ mctx.data.regexecs # <<>>
    /\ mctx.data.regexecs[Len(mctx.data.regexecs)].state = "compiled"

\* C28: a :regex match that does not match makes no change to the match
\* values of the interpreter; one that matches replaces them in a single
\* commit, by the captures of the matching key alone, and no partly built
\* set is the interpreter's set at any point.
C28_MatchValuesCommitted ==
    (mop.op = "value" /\ mctx.type = "regex") =>
        /\ \A i \in 1..Len(mop.calls) :
              /\ ~mop.calls[i].ret => mop.calls[i].sets = <<>>
              /\ \A k \in 1..(Len(mop.calls[i].sets) - 1) :
                    mop.calls[i].sets[k] = mop.before
        /\ (~mop.ret \/ ~mctx.enabled) => mvalues = mop.before
        /\ (mop.ret /\ mctx.enabled) =>
              /\ MatchingCall.sets # <<>>
              /\ mvalues = MatchingCall.sets[Len(MatchingCall.sets)]
              /\ RanCompiled =>
                    mvalues = regexec(mctx.cmp = "i;ascii-casemap",
                                      mctx.keys[MatchingCall.key_index + 1],
                                      mop.value).captures

\* "TOP" under i;ascii-casemap: "x" does not match, "t(o)p" matches with
\* ${0} = "TOP" and ${1} = "O", replacing the previous ${0} = "p"
C28_Witness ==
    /\ mop.op = "value"
    /\ mctx.type = "regex"
    /\ mctx.enabled
    /\ mctx.cmp = "i;ascii-casemap"
    /\ mctx.keys = << <<120>>, <<116, 40, 111, 41, 112>> >>
    /\ mop.value = <<84, 79, 80>>
    /\ mop.before = PreviousValues
    /\ Len(mop.calls) = 2
    /\ mvalues = << <<84, 79, 80>>, <<79>> >>

\* C29: in a :regex match session every regexec runs an automaton that was
\* compiled with success for that key index earlier in the session, no key
\* is compiled twice, and match_deinit frees exactly the automata that were
\* compiled with success, each once.
C29_CompiledBeforeUse ==
    mctx.type = "regex" =>
        /\ \A i \in 1..Len(mctx.data.regexecs) :
              /\ mctx.data.regexecs[i].state = "compiled"
              /\ \E c \in 1..Len(mctx.data.compiled) :
                    mctx.data.compiled[c] = mctx.data.regexecs[i].key_index
        /\ \A c, d \in 1..Len(mctx.data.compiled) :
              mctx.data.compiled[c] = mctx.data.compiled[d] => c = d
        /\ mop.op = "end" =>
              /\ \A i \in 1..Len(mctx.data.freed) :
                    mctx.data.freed[i] = "compiled"
              /\ \A c \in 1..Len(mctx.data.compiled) :
                    mctx.data.compiled[c] + 1 <= Len(mctx.data.freed)

(***************************************************************************)
(* Properties of the store action (SpecStore)                              *)
(***************************************************************************)
Terminal == sop.op \in {"commit", "rollback"}
LastLog == storage.log[Len(storage.log)]

\* C22: a mailbox is never closed more often than it was allocated for
\* opening, and once commit or rollback has returned every mailbox that
\* start opened is closed and every mail transaction that execute began is
\* committed or rolled back, on every path.
C22_ReleasedAtTerminal ==
    /\ sop.op # "none" =>
          /\ storage.closes <= storage.allocs
          /\ storage.committed + storage.rolled <= storage.begun
          /\ trans.box <=> storage.closes < storage.allocs
    /\ Terminal =>
          /\ storage.closes = storage.allocs
          /\ ~trans.box
          /\ ~trans.mail_trans
          /\ storage.committed + storage.rolled = storage.begun

\* The copy failed in execute: rollback ends the transaction and closes
\* the mailbox
C22_Witness ==
    /\ sop.op = "rollback"
    /\ storage.allocs = 1
    /\ storage.closes = 1
    /\ storage.begun = 1
    /\ storage.rolled = 1
    /\ storage.saved = <<>>

\* C23: a store into the mailbox the message is in is marked redundant;
\* its execute begins no transaction and copies nothing, it gives the
\* original mail the flags and keywords of the side effects if there were
\* any and leaves it alone otherwise, and its commit succeeds, logs that
\* the message was left in place and sets message_saved and keep_original.
C23_RedundantLeftInPlace ==
    /\ sop.op # "none" =>
          (trans.redundant <=>
              storage.namespaces /\ storage.opened /\ storage.same_backend)
    /\ (sop.op \in {"execute", "commit"} /\ trans.redundant) =>
          /\ storage.begun = 0
          /\ storage.copies = 0
          /\ storage.add_flags = 0 => storage.mail = NoStorage.mail
          /\ storage.add_flags > 0 =>
                /\ storage.mail.flags = storage.supplied.flags
                /\ storage.supplied.keywords # <<>> =>
                      storage.mail.keywords = storage.supplied.keywords
    /\ (sop.op = "execute" /\ trans.redundant) => sop.ret
    /\ (sop.op = "commit" /\ trans.redundant) =>
          /\ sop.ret
          /\ LastLog = "left message in mailbox"
          /\ storage.message_saved
          /\ storage.keep_original

\* C24: without mail namespaces a store is marked disabled; start
\* succeeds and opens no mailbox, execute succeeds and does nothing to the
\* storage, commit logs that the store was skipped and succeeds, and
\* message_saved stays unset.
C24_DisabledSkipped ==
    /\ sop.op # "none" => (trans.disabled <=> ~storage.namespaces)
    /\ (sop.op # "none" /\ ~storage.namespaces) =>
          /\ storage.allocs = 0
          /\ storage.begun = 0
          /\ storage.copies = 0
          /\ storage.mail = NoStorage.mail
          /\ ~storage.message_saved
          /\ sop.op \in {"start", "execute", "commit"} => sop.ret
          /\ sop.op = "commit" => LastLog = "store into mailbox skipped"

C24_Witness ==
    /\ sop.op = "commit"
    /\ ~storage.namespaces
    /\ trans.disabled
    /\ trans.flags_altered
    /\ storage.log = <<"store into mailbox skipped">>
    /\ ~storage.keep

\* C37: message_saved is set exactly by a commit that succeeded for a store
\* that is not disabled: one that committed its mail transaction after the
\* copy, or a redundant one; a disabled, failed or rolled-back store leaves
\* it unset.  The keep out-parameter is cleared with the message stored
\* only by a successful commit of a store that is not redundant.
C37_MessageSavedByCommit ==
    sop.op # "none" =>
        /\ storage.message_saved <=>
              (sop.op = "commit" /\ sop.ret /\ ~trans.disabled)
        /\ (storage.message_saved /\ ~trans.redundant) =>
              /\ storage.committed = 1
              /\ storage.saved # <<>>
              /\ ~storage.keep
        /\ ~storage.keep =>
              (sop.op = "commit" /\ sop.ret /\ ~trans.redundant)
        /\ (~storage.keep /\ ~trans.disabled) => storage.message_saved
        /\ sop.op = "rollback" => (~storage.message_saved /\ storage.keep)

\* The copy was made with the flags of a side effect and committed
C37_Witness ==
    /\ sop.op = "commit"
    /\ sop.ret
    /\ storage.message_saved
    /\ ~storage.keep
    /\ storage.committed = 1
    /\ storage.saved = <<[flags |-> {"\\Seen"}, keywords |-> <<"$label1">>]>>

(***************************************************************************)
(* Nesting of the loop frames (Spec)                                       *)
(***************************************************************************)
\* C32: every frame on the loop stack lies inside the frame below it
\* (inner.begin >= outer.begin and inner.end <= outer.end), so the ends
\* do not increase from the outermost to the innermost frame; a loop_start
\* that would break this returns BIN_CORRUPT and pushes nothing.
C32_FramesNested ==
    \A i \in 2..Len(loop_stack) :
        /\ loop_stack[i].end <= loop_stack[i - 1].end
        /\ loop_stack[i].begin >= loop_stack[i - 1].begin

(***************************************************************************)
(* The end of a multiscript session (SpecMulti)                            *)
(***************************************************************************)
\* What holds of a step taken by a session that has ended: it stays ended,
\* a sieve_multiscript_run returns FALSE, no script is run, the status is
\* kept and no implicit keep is performed
StaysEnded ==
    /\ ~active'
    /\ scripts' # scripts => ~run_ret'
    /\ run_status' = run_status
    /\ status' = status
    /\ keeps' = keeps
    /\ keep_log' = keep_log

C34_FailureKeepOutcome ==
    [][(epc' = "session" /\ Len(keeps') = Len(keeps) + 1) =>
          LET k == keeps'[Len(keeps')] IN
          /\ run_status' = SIEVE_EXEC_FAILURE
          /\ keep' <=> k = SIEVE_EXEC_OK
          /\ k # SIEVE_EXEC_OK => status' = SIEVE_EXEC_KEEP_FAILED]_vars

(***************************************************************************)
(* C35: saving is idempotent.  When a binary that was saved without a      *)
(* failure is saved again without a failure, the file at path is the file  *)
(* the first save left there, and block 0 holds one link table: the count  *)
(* and the names of the linked extensions, once.                           *)
(***************************************************************************)
C35_SaveIdempotent ==
    (saves = 2 /\ fop.op = "save" /\ fop.origin = "none")
        => /\ disk.path = fop.before.path
           /\ blocks[1].data = EmitExtensions(wordbits, linked)

(***************************************************************************)
(* SpecActive: a binary under generation (sieve_binary_create_new) whose   *)
(* blocks are activated, emitted to and read.  The emit functions append   *)
(* to sbin->data, the buffer of the active block; the read functions look  *)
(* at sbin->code and sbin->code_size, which sieve_binary_block_set_active  *)
(* took from that buffer (sieve-binary.c:245-258, 1095-1097).              *)
(***************************************************************************)
\* buffer_create_dynamic(sbin->pool, 64): the memory a block's buffer starts
\* with; an append past it may move the buffer
BufferInitialSize == 64
ActiveData == { <<7>>, <<9, 8>>, [i \in 1..(BufferInitialSize + 1) |-> 5] }

\* sbin->data
ActiveBuffer == blocks[active_block + 1].data
\* sieve_binary_get_code_size
sieve_binary_get_code_size == Len(ActiveBuffer)

\* sieve_binary_block_set_active: a block id that does not exist changes
\* nothing
sieve_binary_block_set_active(id) ==
    IF id >= Len(blocks)
    THEN [active_block |-> active_block, code_size |-> code_size,
          code_moved |-> code_moved]
    ELSE [active_block |-> id, code_size |-> Len(blocks[id + 1].data),
          code_moved |-> FALSE]

\* sieve_binary_create_new: the extensions block, and the main program
\* block made active while it is empty
InitActive ==
    /\ InterpreterIdle
    /\ ExecuteIdle
    /\ StoresIdle
    /\ MatchIdle
    /\ StoreIdle
    /\ wordbits = 32
    /\ code = <<>>
    /\ emitted = <<>>
    /\ cop = [op |-> "none"]
    /\ blocks = <<NewBlock, NewBlock>>
    /\ linked = <<>>
    /\ disk = <<>>
    /\ saves = 0
    /\ fop = [op |-> "none"]
    /\ active_block = 1
    /\ code_size = 0
    /\ code_moved = FALSE
    /\ extensions = <<>>
    /\ RefsIdle
    /\ ClientIdle

ActiveSetActive ==
    /\ \E id \in 0..Len(blocks) :
        \E a \in { sieve_binary_block_set_active(id) } :
            /\ active_block' = a.active_block
            /\ code_size' = a.code_size
            /\ code_moved' = a.code_moved
    /\ cop' = [op |-> "set_active"]
    /\ UNCHANGED <<ivars, ancestors, evars, rvars, tvars, svars, wordbits,
                   code, emitted, fvars, extensions, nvars, pvars>>

\* sieve_binary_emit_data: buffer_append to sbin->data.  moved: whether an
\* append that outgrows the buffer's memory left it at another address.
ActiveEmitData ==
    /\ Len(emitted) < MaxEmits
    /\ \E data \in ActiveData, moved \in BOOLEAN :
        /\ moved => Len(ActiveBuffer) + Len(data) > BufferInitialSize
        /\ blocks' = [blocks EXCEPT ![active_block + 1].data = @ \o data]
        /\ emitted' = Append(emitted, [block |-> active_block,
                                       at |-> Len(ActiveBuffer),
                                       len |-> Len(data)])
        /\ code_moved' = (code_moved \/ moved)
    /\ cop' = [op |-> "emit_data"]
    /\ UNCHANGED <<ivars, ancestors, evars, rvars, tvars, svars, wordbits,
                   code, linked, disk, saves, fop, active_block, code_size,
                   extensions, nvars, pvars>>

\* sieve_binary_read_byte at an address an emit call on the active block
\* returned.  What is read through a code pointer the buffer moved away
\* from is any byte.
ActiveReadByte ==
    /\ \E e \in 1..Len(emitted) :
        /\ emitted[e].block = active_block
        /\ \E byte \in IF code_moved THEN BeyondBytes \cup {5, 7, 9}
                       ELSE { ActiveBuffer[emitted[e].at + 1] } :
            cop' = [op |-> "read_byte", at |-> emitted[e].at,
                    size |-> code_size, used |-> sieve_binary_get_code_size,
                    emitted |-> ActiveBuffer[emitted[e].at + 1],
                    rd |-> sieve_binary_read_byte(code_size, emitted[e].at,
                                                  <<byte>>)]
    /\ UNCHANGED <<ivars, ancestors, evars, rvars, tvars, svars, wordbits,
                   code, emitted, fvars, xvars>>

NextActive ==
    \/ ActiveSetActive
    \/ ActiveEmitData
    \/ ActiveReadByte

SpecActive == InitActive /\ [][NextActive]_vars

(***************************************************************************)
(* C31: the read functions act on the active block's buffer.  The size the *)
(* read functions go by is sieve_binary_get_code_size at all times, and a  *)
(* read_byte at an address below the current size of the active block      *)
(* succeeds with the byte emitted there, with no set_active between the    *)
(* emit and the read.                                                      *)
(***************************************************************************)
C31_ReadsFollowEmits ==
    /\ code_size = sieve_binary_get_code_size
    /\ (cop.op = "read_byte" /\ cop.at < cop.used)
          => (cop.rd.ok /\ cop.rd.val = cop.emitted)

(***************************************************************************)
(* SpecExt: extensions are registered in a binary under generation, by     *)
(* sieve_binary_extension_link and by the calls that register a context or *)
(* a block; the binary is saved and the file is loaded into a new binary.  *)
(* extensions is sbin->extensions (a registration's index is its place in  *)
(* it), sbin->extension_index is its inverse, linked is                    *)
(* sbin->linked_extensions.                                                *)
(***************************************************************************)
\* sieve_binary_extension_get_reg / sieve_binary_extension_get_index: the
\* index of the registration of ext_id in regs, -1 if there is none
sieve_binary_extension_get_index(regs, ext_id) ==
    IF \E i \in 1..Len(regs) : regs[i] = ext_id
    THEN (CHOOSE i \in 1..Len(regs) : regs[i] = ext_id) - 1
    ELSE -1

\* sieve_binary_extension_create_reg: index = array_count(&sbin->extensions)
sieve_binary_extension_create_reg(regs, ext_id) == Append(regs, ext_id)

\* sieve_binary_extension_get_by_index: *ext_id
sieve_binary_extension_get_by_index(regs, index) ==
    IF index < Len(regs) THEN regs[index + 1] ELSE -1

InitExt ==
    /\ InterpreterIdle
    /\ ExecuteIdle
    /\ StoresIdle
    /\ MatchIdle
    /\ StoreIdle
    /\ ActiveIdle
    /\ RefsIdle
    /\ ClientIdle
    /\ wordbits = 32
    /\ code = <<>>
    /\ emitted = <<>>
    /\ cop = [op |-> "none"]
    /\ blocks = <<NewBlock, NewBlock>>
    /\ linked = <<>>
    /\ extensions = <<>>
    /\ disk = [path |-> NoFile, tmp |-> NoFile]
    /\ saves = 0
    /\ fop = [op |-> "none", origin |-> "none", result |-> FALSE,
              before |-> [blocks |-> <<>>, linked |-> <<>>, path |-> NoFile],
              loaded |-> LoadRejected, activated |-> FALSE]

\* sieve_binary_extension_link: an extension with no registration is
\* registered and appended to the linked extensions
ExtLink ==
    /\ Generating
    /\ \E ext_id \in Extensions :
        /\ sieve_binary_extension_get_index(extensions, ext_id) = -1
        /\ extensions' = sieve_binary_extension_create_reg(extensions, ext_id)
        /\ linked' = Append(linked, ext_id)
    /\ UNCHANGED <<ivars, ancestors, evars, cvars, rvars, tvars, svars, avars,
                   nvars, pvars,
                   blocks, disk, saves, fop>>

\* sieve_binary_extension_set_context / sieve_binary_extension_set: an
\* extension with no registration gets one
ExtSetContext ==
    /\ Generating
    /\ \E ext_id \in Extensions :
        /\ sieve_binary_extension_get_index(extensions, ext_id) = -1
        /\ extensions' = sieve_binary_extension_create_reg(extensions, ext_id)
    /\ UNCHANGED <<ivars, ancestors, evars, cvars, rvars, tvars, svars, avars,
                   nvars, pvars,
                   fvars>>

\* sieve_binary_extension_create_block
ExtCreateBlock ==
    /\ Generating
    /\ Len(blocks) < MaxFileBlocks
    /\ \E ext_id \in Extensions :
        extensions' =
            IF sieve_binary_extension_get_index(extensions, ext_id) = -1
            THEN sieve_binary_extension_create_reg(extensions, ext_id)
            ELSE extensions
    /\ blocks' = Append(blocks, NewBlock)
    /\ UNCHANGED <<ivars, ancestors, evars, cvars, rvars, tvars, svars, avars,
                   nvars, pvars,
                   linked, disk, saves, fop>>

NextExt ==
    \/ ExtLink
    \/ ExtSetContext
    \/ ExtCreateBlock
    \/ Save
    \/ Load

SpecExt == InitExt /\ [][NextExt]_vars

(***************************************************************************)
(* C36: in every binary index and id are in bijection over the registered  *)
(* extensions, and an extension linked during generation has, in the       *)
(* binary loaded from the saved file, the index it had in the binary that  *)
(* was generated (the index the bytecode holds).                           *)
(***************************************************************************)
IndexBijection(regs) ==
    /\ \A i, j \in 1..Len(regs) : regs[i] = regs[j] => i = j
    /\ \A ext_id \in Extensions :
        sieve_binary_extension_get_index(regs, ext_id) # -1
            => sieve_binary_extension_get_by_index(regs,
                   sieve_binary_extension_get_index(regs, ext_id)) = ext_id

C36_IndexKept ==
    /\ IndexBijection(extensions)
    /\ (fop.op = "load" /\ fop.result /\ fop.origin = "none")
          => /\ IndexBijection(fop.loaded.linked)
             /\ \A i \in 1..Len(linked) :
                   sieve_binary_extension_get_index(fop.loaded.linked,
                                                    linked[i])
                     = sieve_binary_extension_get_index(extensions, linked[i])

(***************************************************************************)
(* SpecRefs: one binary, the reference of whoever compiled or opened it,   *)
(* and the interpreters created on it.  binary.hooks, binary.closes and    *)
(* binary.pool_unrefs count what sieve_binary_unref did when it released   *)
(* the binary: the binary_free hooks of its extensions run, its fd closed, *)
(* its pool unreferenced.                                                  *)
(***************************************************************************)
MaxInterps == 3     \* interpreters created on the binary

\* sieve_binary_ref
sieve_binary_ref(sbin) == [sbin EXCEPT !.refcount = @ + 1]

\* An unref that releases the binary whatever the count
sieve_binary_unref_first(sbin) ==
    [sbin EXCEPT !.refcount = @ - 1,
                 !.hooks = @ + (IF sbin.binary_free THEN 1 ELSE 0),
                 !.closes = @ + (IF sbin.fd >= 0 THEN 1 ELSE 0),
                 !.pool_unrefs = @ + 1]

\* sieve_binary_unref: the last reference releases the binary
sieve_binary_unref(sbin) ==
    IF sbin.refcount - 1 # 0
    THEN [sbin EXCEPT !.refcount = @ - 1]
    ELSE [sbin EXCEPT !.refcount = 0,
                      !.hooks = @ + (IF sbin.binary_free THEN 1 ELSE 0),
                      !.closes = @ + (IF sbin.fd >= 0 THEN 1 ELSE 0),
                      !.pool_unrefs = @ + 1]

\* sieve_interpreter_free: the interpreter gives up its reference
sieve_interpreter_free(sbin) == sieve_binary_unref(sbin)

\* _sieve_interpreter_create: the reference is taken before the debug
\* block and the extensions are read; a creation that fails there frees
\* the interpreter and returns NULL
sieve_interpreter_create(sbin, success) ==
    LET referenced == sieve_binary_ref(sbin) IN
    IF success THEN [sbin |-> referenced, interp |-> "alive"]
    ELSE [sbin |-> sieve_interpreter_free(referenced), interp |-> "NULL"]

Alive == { i \in 1..Len(interps) : interps[i] = "alive" }

\* sieve_binary_create: refcount 1, held by the caller.  A binary opened
\* from a file has an fd; an extension may have a binary_free hook.
InitRefs ==
    /\ InterpreterIdle
    /\ ExecuteIdle
    /\ BinaryIdle
    /\ ActiveIdle
    /\ ClientIdle
    /\ extensions = <<>>
    /\ binary \in [refcount : {1}, fd : {-1, 3}, binary_free : BOOLEAN,
                   hooks : {0}, closes : {0}, pool_unrefs : {0},
                   held : {TRUE}]
    /\ interps = <<>>
    /\ rop = [op |-> "create"]

\* sieve_interpreter_create by a caller that holds a reference or runs
\* inside an interpreter of the binary
InterpreterCreate ==
    /\ binary.held \/ Alive # {}
    /\ Len(interps) < MaxInterps
    /\ \E success \in BOOLEAN :
        \E made \in { sieve_interpreter_create(binary, success) } :
            /\ binary' = made.sbin
            /\ interps' = Append(interps, made.interp)
            /\ rop' = [op |-> "interpreter_create", success |-> success]
    /\ UNCHANGED <<ivars, ancestors, evars, cvars, fvars, rvars, tvars, svars,
                   pvars, avars, extensions>>

InterpreterFree ==
    /\ \E i \in Alive :
        /\ binary' = sieve_interpreter_free(binary)
        /\ interps' = [interps EXCEPT ![i] = "freed"]
        /\ rop' = [op |-> "interpreter_free", interp |-> i]
    /\ UNCHANGED <<ivars, ancestors, evars, cvars, fvars, rvars, tvars, svars,
                   pvars, avars, extensions>>

\* sieve_close: the caller gives up the reference sieve_binary_create gave
Close ==
    /\ binary.held
    /\ binary' = [sieve_binary_unref(binary) EXCEPT !.held = FALSE]
    /\ rop' = [op |-> "close"]
    /\ UNCHANGED <<ivars, ancestors, evars, cvars, fvars, rvars, tvars, svars,
                   pvars, avars, extensions, interps>>

NextRefs ==
    \/ InterpreterCreate
    \/ InterpreterFree
    \/ Close

SpecRefs == InitRefs /\ [][NextRefs]_vars

(***************************************************************************)
(* C40: the binary is released once, when its refcount drops to zero, and  *)
(* never while an interpreter created on it is alive.  The refcount is one *)
(* per live interpreter plus the caller's reference: an interpreter holds  *)
(* its reference from creation to sieve_interpreter_free, and a creation   *)
(* that failed part-way leaves none behind.                                *)
(***************************************************************************)
C40_ReleasedOnceAtZero ==
    /\ binary.refcount = Cardinality(Alive) + (IF binary.held THEN 1 ELSE 0)
    /\ binary.pool_unrefs = (IF binary.refcount = 0 THEN 1 ELSE 0)
    /\ binary.hooks = (IF binary.refcount = 0 /\ binary.binary_free THEN 1 ELSE 0)
    /\ binary.closes = (IF binary.refcount = 0 /\ binary.fd >= 0 THEN 1 ELSE 0)
    /\ Alive # {} => binary.pool_unrefs = 0

\* The binary of a file, released by the free of its last interpreter after
\* the caller closed it and after a creation failed
C40_Witness ==
    /\ rop.op = "interpreter_free"
    /\ ~binary.held
    /\ binary.fd = 3
    /\ binary.binary_free
    /\ \E i \in 1..Len(interps) : interps[i] = "NULL"
    /\ binary.refcount = 0
    /\ binary.pool_unrefs = 1
    /\ binary.closes = 1
    /\ binary.hooks = 1

(***************************************************************************)
(* SpecClient: one program_client_run (part_003).  The implementation's    *)
(* connect either fails, or connects at once (it opens the fds and calls   *)
(* program_client_init_streams and program_client_connected before it      *)
(* returns), or leaves the connection to be completed inside the ioloop.   *)
(* Inside io_loop_run the timeout and the I/O callbacks run one at a time, *)
(* in any order, each only while its timeout or watcher is registered.     *)
(* pclient.errors lists the assignments to pclient->error since the reset, *)
(* pclient.failures the calls of pclient->failure, pclient.closes the fds  *)
(* handed to close(), pclient.called the callback the ioloop called last.  *)
(***************************************************************************)
\* fd_in and fd_out as connect leaves them: a socket, two pipes, no input
FdPairs == { <<3, 3>>, <<3, 4>>, <<-1, 4>> }

\* program_client_init, and the settings of the client
InitClient ==
    /\ InterpreterIdle
    /\ ExecuteIdle
    /\ BinaryIdle
    /\ ActiveIdle
    /\ RefsIdle
    /\ extensions = <<>>
    /\ pclient \in [error : {"NONE"}, errors : {<<>>}, failures : {<<>>},
                    disconnected : {FALSE}, fd_in : {-1}, fd_out : {-1},
                    closes : {<<>>}, to : {"NULL"}, io : {"NULL"},
                    ioloop : {"NULL"}, program_output : {FALSE},
                    program_input : {FALSE}, flush_callback : {FALSE},
                    client_connect_timeout_msecs : {0, 1000},
                    input_idle_timeout_secs : {0, 10},
                    called : {"none"}]
    /\ ppc = "init"
    /\ pret = 0

\* program_client_close_output: the stream is destroyed before the
\* implementation's close_output is asked
program_client_close_output(c) ==
    [c EXCEPT !.program_output = FALSE, !.flush_callback = FALSE]

ClosedFds(c) ==
    (IF c.fd_in # -1 THEN <<c.fd_in>> ELSE <<>>)
        \o (IF c.fd_out # -1 /\ c.fd_out # c.fd_in THEN <<c.fd_out>> ELSE <<>>)

\* A disconnect that leaves the timeout where it is
disconnect_leaving_timeout(c, failed) ==
    LET stopped == [c EXCEPT !.ioloop = IF @ = "NULL" THEN @ ELSE "stopped"]
    IN  IF c.disconnected THEN stopped
        ELSE [program_client_close_output(stopped) EXCEPT
                 !.program_input = FALSE,
                 !.io = "NULL",
                 !.closes = @ \o ClosedFds(c),
                 !.fd_in = -1,
                 !.fd_out = -1,
                 !.disconnected = TRUE,
                 !.error = IF failed /\ @ = "NONE" THEN "UNKNOWN" ELSE @,
                 !.errors = IF failed /\ c.error = "NONE"
                            THEN Append(@, "UNKNOWN") ELSE @]

\* program_client_disconnect.  failed: the implementation's close_output or
\* disconnect returned less than zero.
program_client_disconnect(c, failed) ==
    LET stopped == [c EXCEPT !.ioloop = IF @ = "NULL" THEN @ ELSE "stopped"]
    IN  IF c.disconnected THEN stopped
        ELSE [program_client_close_output(stopped) EXCEPT
                 !.program_input = FALSE,
                 !.to = "NULL",
                 !.io = "NULL",
                 !.closes = @ \o ClosedFds(c),
                 !.fd_in = -1,
                 !.fd_out = -1,
                 !.disconnected = TRUE,
                 !.error = IF failed /\ @ = "NONE" THEN "UNKNOWN" ELSE @,
                 !.errors = IF failed /\ c.error = "NONE"
                            THEN Append(@, "UNKNOWN") ELSE @]

\* A fail that does not look at pclient->error
fail_again(c, error) ==
    [program_client_disconnect(
         [c EXCEPT !.error = error, !.errors = Append(@, error)], FALSE)
       EXCEPT !.failures = Append(@, error)]

\* program_client_fail
program_client_fail(c, error) ==
    IF c.error # "NONE" THEN c
    ELSE [program_client_disconnect(
              [c EXCEPT !.error = error, !.errors = Append(@, error)], FALSE)
            EXCEPT !.failures = Append(@, error)]

\* program_client_input_pending (no extra fds)
program_client_input_pending(c) == c.program_input

\* What a call of program_client_program_output meets
OutputOutcomes == {"error", "blocked", "more", "done"}

\* program_client_program_output: ret and the client
program_client_program_output(c, outcome, failed) ==
    CASE outcome = "error" ->
            [ret |-> -1, c |-> program_client_fail(c, "IO")]
      [] outcome = "blocked" -> [ret |-> 0, c |-> c]
      [] outcome = "more" -> [ret |-> 1, c |-> c]
      [] outcome = "done" ->
            [ret |-> 1,
             c |-> IF ~program_client_input_pending(c)
                   THEN program_client_disconnect(c, failed)
                   ELSE IF failed
                   THEN program_client_fail(program_client_close_output(c), "IO")
                   ELSE program_client_close_output(c)]

\* program_client_program_input
InputOutcomes == {"data", "send_error", "eof", "read_error"}
program_client_program_input(c, outcome, failed) ==
    CASE outcome = "data" -> c
      [] outcome \in {"send_error", "read_error"} -> program_client_fail(c, "IO")
      [] outcome = "eof" ->
            LET at_eof == [c EXCEPT !.program_input = FALSE] IN
            IF ~program_client_input_pending(at_eof)
            THEN program_client_disconnect(c, failed)
            ELSE c

\* program_client_init_streams
program_client_init_streams(c) ==
    [c EXCEPT !.program_output = (c.fd_out >= 0),
              !.program_input = (c.fd_in >= 0),
              !.io = IF c.fd_in >= 0 THEN "program_input" ELSE @]

\* program_client_connected
program_client_connected(c, outcome, failed) ==
    LET timed == [c EXCEPT !.to = IF c.input_idle_timeout_secs # 0
                                  THEN "program_client_timeout" ELSE "NULL"]
        out == program_client_program_output(timed, outcome, failed)
    IN  IF ~timed.program_output THEN [ret |-> 1, c |-> timed]
        ELSE [ret |-> out.ret,
              c |-> IF out.ret = 0 /\ out.c.program_output
                    THEN [out.c EXCEPT !.flush_callback = TRUE] ELSE out.c]

\* What the implementation's connect does
Connects == {"refused", "now", "pending"}

\* pclient->connect(pclient): ret and the client
connect(c, how, fds, outcome, failed) ==
    LET opened == [c EXCEPT !.fd_in = fds[1], !.fd_out = fds[2]]
        now == program_client_connected(program_client_init_streams(opened),
                                        outcome, failed)
    IN  CASE how = "refused" -> [ret |-> -1, c |-> c]
          [] how = "now" -> now
          [] how = "pending" -> [ret |-> 0, c |-> [opened EXCEPT !.io = "connected"]]

\* program_client_connect
program_client_connect(c, how, fds, outcome, failed) ==
    LET timed == [c EXCEPT !.to = IF c.client_connect_timeout_msecs # 0
                                  THEN "program_client_connect_timeout"
                                  ELSE @]
        made == connect(timed, how, fds, outcome, failed)
    IN  IF made.ret < 0
        THEN [ret |-> -1, c |-> program_client_fail(made.c, "IO")]
        ELSE made

\* program_client_run, to the return of program_client_connect: a failed
\* connect returns from the run
ClientRun ==
    /\ ppc = "init"
    /\ \E how \in Connects, fds \in FdPairs, outcome \in OutputOutcomes,
          failed \in BOOLEAN :
        \E made \in { program_client_connect(
                          [pclient EXCEPT !.disconnected = FALSE,
                                          !.error = "NONE",
                                          !.errors = <<>>,
                                          !.failures = <<>>,
                                          !.ioloop = "created"],
                          how, fds, outcome, failed) } :
            IF made.ret >= 0
            THEN /\ pclient' = made.c
                 /\ ppc' = "connected"
                 /\ pret' = made.ret
            ELSE /\ pclient' = [made.c EXCEPT !.ioloop = "NULL"]
                 /\ ppc' = "returned"
                 /\ pret' = IF made.c.error # "NONE" THEN -1 ELSE 1
    /\ UNCHANGED <<ivars, ancestors, evars, cvars, fvars, rvars, tvars, svars, avars,
                   extensions, nvars>>

\* program_client_run after the connect: the flush of the output, and
\* whether the ioloop is run
ClientFlush ==
    /\ ppc = "connected"
    /\ \E flush \in {-1, 0, 1} :
        LET flushed == pret > 0 /\ pclient.program_output
            flush_ret == IF flushed THEN flush ELSE pret
            c == IF flushed /\ flush = 0
                 THEN [pclient EXCEPT !.flush_callback = TRUE] ELSE pclient
        IN  /\ ~flushed => flush = 1
            /\ pret' = flush_ret
            /\ IF flush_ret < 0
               THEN /\ pclient' = [c EXCEPT !.error = "IO",
                                            !.errors = Append(@, "IO")]
                    /\ ppc' = "finished"
               ELSE IF ~c.disconnected
                       /\ (flush_ret = 0 \/ program_client_input_pending(c))
               THEN /\ pclient' = [c EXCEPT !.ioloop = "running"]
                    /\ ppc' = "io_loop_run"
               ELSE /\ pclient' = c
                    /\ ppc' = "finished"
    /\ UNCHANGED <<ivars, ancestors, evars, cvars, fvars, rvars, tvars, svars, avars,
                   extensions, nvars>>

InLoop == ppc = "io_loop_run" /\ pclient.ioloop = "running"

\* program_client_connect_timeout
ConnectTimeout ==
    /\ InLoop
    /\ pclient.to = "program_client_connect_timeout"
    /\ pclient' = [program_client_fail(pclient, "CONNECT_TIMEOUT")
                      EXCEPT !.called = "program_client_connect_timeout"]
    /\ UNCHANGED <<ivars, ancestors, evars, cvars, fvars, rvars, tvars, svars, avars,
                   extensions, nvars, ppc, pret>>

\* program_client_timeout
RunTimeout ==
    /\ InLoop
    /\ pclient.to = "program_client_timeout"
    /\ pclient' = [program_client_fail(pclient, "RUN_TIMEOUT")
                      EXCEPT !.called = "program_client_timeout"]
    /\ UNCHANGED <<ivars, ancestors, evars, cvars, fvars, rvars, tvars, svars, avars,
                   extensions, nvars, ppc, pret>>

\* The implementation completes the connection: its watcher is removed,
\* the streams are made and program_client_connected is called
Connected ==
    /\ InLoop
    /\ pclient.io = "connected"
    /\ \E outcome \in OutputOutcomes, failed \in BOOLEAN :
        pclient' = [program_client_connected(
                        program_client_init_streams(
                            [pclient EXCEPT !.io = "NULL"]),
                        outcome, failed).c EXCEPT !.called = "connected"]
    /\ UNCHANGED <<ivars, ancestors, evars, cvars, fvars, rvars, tvars, svars, avars,
                   extensions, nvars, ppc, pret>>

\* program_client_program_input, the callback of pclient->io
ProgramInput ==
    /\ InLoop
    /\ pclient.io = "program_input"
    /\ \E outcome \in InputOutcomes, failed \in BOOLEAN :
        pclient' = [program_client_program_input(pclient, outcome, failed)
                      EXCEPT !.called = "program_client_program_input"]
    /\ UNCHANGED <<ivars, ancestors, evars, cvars, fvars, rvars, tvars, svars, avars,
                   extensions, nvars, ppc, pret>>

\* program_client_program_output, the flush callback of program_output
ProgramOutput ==
    /\ InLoop
    /\ pclient.flush_callback
    /\ \E outcome \in OutputOutcomes, failed \in BOOLEAN :
        pclient' = [program_client_program_output(pclient, outcome, failed).c
                      EXCEPT !.called = "program_client_program_output"]
    /\ UNCHANGED <<ivars, ancestors, evars, cvars, fvars, rvars, tvars, svars, avars,
                   extensions, nvars, ppc, pret>>

\* program_client_run after the ioloop: the disconnect, io_loop_destroy and
\* the return
ClientFinish ==
    /\ \/ ppc = "finished"
       \/ ppc = "io_loop_run" /\ pclient.ioloop = "stopped"
    /\ \E failed \in BOOLEAN :
        \E c \in { program_client_disconnect(pclient, failed) } :
            /\ pclient' = [c EXCEPT !.ioloop = "NULL"]
            /\ pret' = IF c.error # "NONE" THEN -1 ELSE 1
    /\ ppc' = "returned"
    /\ UNCHANGED <<ivars, ancestors, evars, cvars, fvars, rvars, tvars, svars, avars,
                   extensions, nvars>>

\* program_client_destroy after the run
ClientDestroy ==
    /\ ppc = "returned"
    /\ \E failed \in BOOLEAN :
        pclient' = [program_client_disconnect(pclient, failed)
                      EXCEPT !.io = "NULL", !.ioloop = "NULL"]
    /\ ppc' = "destroyed"
    /\ UNCHANGED <<ivars, ancestors, evars, cvars, fvars, rvars, tvars, svars, avars,
                   extensions, nvars, pret>>

NextClient ==
    \/ ClientRun
    \/ ClientFlush
    \/ ConnectTimeout
    \/ RunTimeout
    \/ Connected
    \/ ProgramInput
    \/ ProgramOutput
    \/ ClientFinish
    \/ ClientDestroy

SpecClient == InitClient /\ [][NextClient]_vars

(***************************************************************************)
(* C38: in one program_client_run the error is recorded at most once and   *)
(* pclient->failure is called at most once, whatever the order of the      *)
(* timeouts and I/O callbacks.  As stated: whenever the run returns -1 the *)
(* failure callback has been called.                                       *)
(***************************************************************************)
C38_FailedOnce_stated ==
    /\ Len(pclient.errors) <= 1
    /\ Len(pclient.failures) <= 1
    /\ (ppc = "returned" /\ pret = -1) => Len(pclient.failures) = 1

\* C38 as the code has it: the error is recorded at most once and the
\* failure callback is called at most once, for the error that
\* program_client_fail recorded; the run returns -1 exactly when an error
\* is recorded, and an error recorded by the run's own flush (IO) or by a
\* disconnect whose close_output or disconnect failed (UNKNOWN) comes
\* without the callback.
C38_FailedOnce ==
    /\ Len(pclient.errors) <= 1
    /\ Len(pclient.failures) <= 1
    /\ pclient.errors = IF pclient.error = "NONE" THEN <<>>
                        ELSE <<pclient.error>>
    /\ pclient.failures # <<>> => pclient.failures = pclient.errors
    /\ pclient.error \in {"CONNECT_TIMEOUT", "RUN_TIMEOUT"}
          => pclient.failures = <<pclient.error>>
    /\ (pclient.error # "NONE" /\ pclient.failures = <<>>)
          => pclient.error \in {"IO", "UNKNOWN"}
    /\ ppc = "returned" => (pret = -1 <=> pclient.error # "NONE")

\* A run that returned -1 for a failed disconnect after the ioloop had run
\* its callbacks, with no call of the failure callback
C38_Witness ==
    /\ ppc = "returned"
    /\ pret = -1
    /\ pclient.error = "UNKNOWN"
    /\ pclient.failures = <<>>
    /\ pclient.called = "program_client_program_input"

(***************************************************************************)
(* C39: program_client_disconnect is idempotent and the run ends           *)
(* disconnected.  When program_client_run has returned the client is       *)
(* disconnected, fd_in and fd_out are -1, no timeout is armed and no       *)
(* watcher or flush callback is registered; no fd is closed twice, and     *)
(* what follows the return (program_client_destroy) closes nothing.        *)
(***************************************************************************)
NoFdClosedTwice ==
    \A i, j \in 1..Len(pclient.closes) :
        pclient.closes[i] = pclient.closes[j] => i = j

DisconnectIdempotent ==
    \A f1, f2 \in BOOLEAN :
        program_client_disconnect(program_client_disconnect(pclient, f1), f2)
            = program_client_disconnect(pclient, f1)

C39_EndsDisconnected ==
    /\ [](/\ NoFdClosedTwice
          /\ DisconnectIdempotent
          /\ ppc \in {"returned", "destroyed"}
                => /\ pclient.disconnected
                   /\ pclient.fd_in = -1
                   /\ pclient.fd_out = -1
                   /\ pclient.to = "NULL"
                   /\ pclient.io = "NULL"
                   /\ ~pclient.flush_callback
                   /\ ~pclient.program_output
                   /\ ~pclient.program_input
                   /\ pclient.ioloop = "NULL")
    /\ [][ppc = "returned" => pclient' = pclient]_vars

\* A destroyed client whose run was ended by the run timeout after both
\* pipes had been opened
C39_Witness ==
    /\ ppc = "destroyed"
    /\ pclient.closes = <<3, 4>>
    /\ pclient.failures = <<"RUN_TIMEOUT">>
    /\ pclient.called = "program_client_timeout"

====
